---- MODULE Spec2Model ----
(***************************************************************************)
(* The request-forwarding engine of the proxy: the credential pool         *)
(* (api_key_manager.py), the per-request handler with its attempt loop,    *)
(* the route classifier, the message repairer and the rescue router        *)
(* (proxy_server.py).                                                      *)
(*                                                                         *)
(* Requests are asyncio tasks on one event loop: a task runs without       *)
(* interruption until it suspends (network I/O, asyncio.sleep, waiting for *)
(* the pool lock).  `running` names the task that holds the loop.          *)
(***************************************************************************)
EXTENDS Integers, Sequences, FiniteSets, TLC

\* ------------------------------------------------------------------ bounds
MaxKeys == 2
NumRequests == 2
MaxTime == 2
CooldownSeconds == 1
MaxMessages == 4

\* ------------------------------------------------------- program constants
CONTENT_LENGTH_THRESHOLD == 564000
ROTATE_KEY_ERROR_CODES == {429, 500}
SYNTHETIC_MODEL == "hf:zai-org/GLM-4.6"
SYNTHETIC_VISION_MODEL == "hf:Qwen/Qwen3-VL-235B-A22B-Instruct"
ZAI_MODEL == "glm-4.6"
QUOTA_TEXT == "token quota is not enough"

\* secrets (bearer values) are pairs; NoSecret is an unset (None) credential
Secret(kind, n) == <<kind, n>>
NoSecret == Secret("None", 0)

Requests == 1..NumRequests
StatusTask == NumRequests + 1
Tasks == 1..(NumRequests + 1)
NoTask == NumRequests + 2

\* ------------------------------------------------------------ credential pool
\* KeyState(key, name, rate_limited_until = 0.0, error_count = 0)
KeyState(n) ==
    [key |-> Secret("cerebras", n), name |-> n, rate_limited_until |-> 0, error_count |-> 0]

\* ApiKeyManager.__init__: one KeyState per configured key, in order
InitialKeyStates(n) == [i \in 1..n |-> KeyState(i)]

\* KeyState.is_available at clock reading t
is_available(state, t) == t >= state.rate_limited_until

\* a variant of the scan that starts one ring position after the index
RoundRobinScan(states, idx, t, n) ==
    LET at(k) == (idx + k) % Len(states) IN
    IF \E k \in 1..n : is_available(states[at(k) + 1], t)
    THEN [found |-> TRUE,
          index |-> at(CHOOSE k \in 1..n :
                          /\ is_available(states[at(k) + 1], t)
                          /\ \A j \in 1..(k - 1) : ~is_available(states[at(j) + 1], t))]
    ELSE [found |-> FALSE, index |-> idx]

\* a variant of the scan that probes the key at the index only
ScanOnlyCursor(states, idx, t, n) ==
    [found |-> is_available(states[idx + 1], t), index |-> idx]

\* get_current_key, the for loop: starting at idx, up to n probes; every probe that
\* finds a rate-limited key moves the index one ring position on
RECURSIVE ScanKeys(_, _, _, _)
ScanKeys(states, idx, t, n) ==
    IF n = 0 THEN [found |-> FALSE, index |-> idx]
    ELSE IF is_available(states[idx + 1], t) THEN [found |-> TRUE, index |-> idx]
    ELSE ScanKeys(states, (idx + 1) % Len(states), t, n - 1)

\* min(self._key_states, key=rate_limited_until): the first minimal element (0-based)
SoonestAvailable(states) ==
    CHOOSE i \in 0..(Len(states) - 1) :
        /\ \A j \in 0..(Len(states) - 1) :
              states[i + 1].rate_limited_until <= states[j + 1].rate_limited_until
        /\ \A j \in 0..(i - 1) :
              states[j + 1].rate_limited_until > states[i + 1].rate_limited_until

\* a variant of the wait that is never positive
NoWait(states, t) == 0

\* wait_time = soonest_available.rate_limited_until - time.time()
WaitTime(states, t) == states[SoonestAvailable(states) + 1].rate_limited_until - t

\* the first position (1-based) whose key equals api_key, 0 when there is none
FindKey(states, k) ==
    IF \E i \in 1..Len(states) : states[i].key = k
    THEN CHOOSE i \in 1..Len(states) :
            states[i].key = k /\ \A j \in 1..(i - 1) : states[j].key # k
    ELSE 0

\* a variant of mark_key_rate_limited that cools the key under the cursor instead of
\* the key named by the caller
MarkCursorKey(states, idx, k, t, cooldown) ==
    [states |-> [states EXCEPT ![idx + 1].rate_limited_until = t + cooldown,
                               ![idx + 1].error_count = @ + 1],
     index |-> (idx + 1) % Len(states)]

\* a variant of mark_key_rate_limited that leaves the index where it is
MarkWithoutRotation(states, idx, k, t, cooldown) ==
    LET i == FindKey(states, k) IN
    IF i = 0 THEN [states |-> states, index |-> idx]
    ELSE [states |-> [states EXCEPT ![i].rate_limited_until = t + cooldown,
                                    ![i].error_count = @ + 1],
          index |-> idx]

\* a variant of mark_key_rate_limited that moves the index two ring positions
MarkAndRotateTwice(states, idx, k, t, cooldown) ==
    LET i == FindKey(states, k) IN
    IF i = 0 THEN [states |-> states, index |-> idx]
    ELSE [states |-> [states EXCEPT ![i].rate_limited_until = t + cooldown,
                                    ![i].error_count = @ + 1],
          index |-> (idx + 2) % Len(states)]

\* mark_key_rate_limited: the pool after the call, as [states, index]
MarkKeyRateLimited(states, idx, k, t, cooldown) ==
    LET i == FindKey(states, k) IN
    IF i = 0 THEN [states |-> states, index |-> idx]
    ELSE [states |-> [states EXCEPT ![i].rate_limited_until = t + cooldown,
                                    ![i].error_count = @ + 1],
          index |-> (idx + 1) % Len(states)]

\* a variant of mark_key_success that leaves the error count as it is
KeepErrorCount(states, k) == states

\* a variant of mark_key_success that takes one error off the count
TakeOneErrorOff(states, k) ==
    LET i == FindKey(states, k) IN
    IF i = 0 THEN states ELSE [states EXCEPT ![i].error_count = @ - 1]

\* mark_key_success: error_count of the named key back to 0
MarkKeySuccess(states, k) ==
    LET i == FindKey(states, k) IN
    IF i = 0 THEN states ELSE [states EXCEPT ![i].error_count = 0]

\* all_keys_rate_limited
AllKeysRateLimited(states, t) ==
    \A i \in 1..Len(states) : ~is_available(states[i], t)

\* get_status: the snapshot returned
GetStatus(states, idx, t) ==
    [keys |-> [i \in 1..Len(states) |->
                  [name |-> states[i].name,
                   available |-> is_available(states[i], t),
                   rate_limited_for |->
                       IF states[i].rate_limited_until - t > 0
                       THEN states[i].rate_limited_until - t ELSE 0,
                   error_count |-> states[i].error_count]],
     current_key |-> states[idx + 1].name]

\* ------------------------------------------------------------ chat messages
\* A message dict: role, tool_calls (tc: "absent", "list" or "null", with the ids of
\* the calls that carry an id), tool_call_id ("" when the key is absent), content
\* ("text", "failed", or "image": a list holding an element of type image_url).
Msg(role, tc, ids, tcid, content) ==
    [role |-> role, tc |-> tc, tool_calls |-> ids, tool_call_id |-> tcid, content |-> content]

UserMsg == Msg("user", "absent", <<>>, "", "text")
ImageMsg == Msg("user", "absent", <<>>, "", "image")
CallMsg(ids) == Msg("assistant", "list", ids, "", "text")
NullCallMsg == Msg("assistant", "null", <<>>, "", "text")
ToolMsg(id) == Msg("tool", "absent", <<>>, id, "text")

\* a variant whose injected response reads like a real one
LookalikeResponse(id) == ToolMsg(id)

\* the fake response injected for a pending tool_call id
FakeResponse(id) == Msg("tool", "absent", <<>>, id, "failed")

\* a variant of list.remove that removes nothing
KeepPending(s, x) == s

\* list.remove(x): the list without the first occurrence of x
RECURSIVE RemoveFirst(_, _)
RemoveFirst(s, x) ==
    IF s = <<>> THEN <<>>
    ELSE IF Head(s) = x THEN Tail(s)
    ELSE <<Head(s)>> \o RemoveFirst(Tail(s), x)

\* a variant of the membership test that never finds the id pending
NeverPending(s, x) == FALSE

InSeq(s, x) == \E i \in 1..Len(s) : s[i] = x

\* a variant that injects nothing for the pending ids
NoFakeResponses(pending) == <<>>

FakeResponses(pending) == [i \in 1..Len(pending) |-> FakeResponse(pending[i])]

\* _fix_missing_tool_responses, the walk over messages[i..] with the fixed list and
\* the pending ids so far
RECURSIVE FixWalk(_, _, _, _)
FixWalk(messages, i, fixed, pending) ==
    IF i > Len(messages)
    THEN fixed \o FakeResponses(pending)
    ELSE LET msg == messages[i] IN
         IF msg.role = "assistant" /\ msg.tc # "absent"
         THEN FixWalk(messages, i + 1, Append(fixed, msg), pending \o msg.tool_calls)
         ELSE IF msg.role = "tool" /\ msg.tool_call_id # ""
         THEN FixWalk(messages, i + 1, Append(fixed, msg),
                      IF InSeq(pending, msg.tool_call_id)
                      THEN RemoveFirst(pending, msg.tool_call_id) ELSE pending)
         ELSE FixWalk(messages, i + 1, Append(fixed \o FakeResponses(pending), msg), <<>>)

\* iterating msg['tool_calls'] raises TypeError when it is null
FixRaises(messages) ==
    \E i \in 1..Len(messages) : messages[i].role = "assistant" /\ messages[i].tc = "null"

fix_missing_tool_responses(messages) == FixWalk(messages, 1, <<>>, <<>>)

\* _has_image_content over a messages list
has_image_content(messages) ==
    \E i \in 1..Len(messages) : messages[i].content = "image"

\* ------------------------------------------------------------ JSON values
\* A parsed JSON value: kind "object", "array", "number", or "none" for Python's None.
\* An object records whether it has a model key and a messages list.
Data(kind, has_model, model, has_messages, messages) ==
    [kind |-> kind, has_model |-> has_model, model |-> model,
     has_messages |-> has_messages, messages |-> messages]

NoData == Data("none", FALSE, "", FALSE, <<>>)
Object(messages) == Data("object", TRUE, "client-model", TRUE, messages)
EmptyObject == Data("object", FALSE, "", FALSE, <<>>)
ArrayValue == Data("array", FALSE, "", FALSE, <<>>)
NumberValue == Data("number", FALSE, "", FALSE, <<>>)

\* a variant in which every value, None included, counts as request data to route
AlwaysTruthy(d) == TRUE

\* Python truthiness of a parsed value: None and {} are falsy; the array and the
\* number of the model are a non-empty list and a non-zero number
Truthy(d) ==
    CASE d.kind = "none" -> FALSE
      [] d.kind = "object" -> d.has_model \/ d.has_messages
      [] OTHER -> TRUE

\* Request bytes: form "empty" (b""), "invalid" (not JSON), "original" (the client's
\* JSON text of data) or "compact" (json.dumps(data, separators=(',', ':')))
Body(form, d) == [form |-> form, data |-> d]
EmptyBody == Body("empty", NoData)
InvalidBody == Body("invalid", NoData)

\* json.loads(body.decode('utf-8')): the value, or a JSONDecodeError
JsonLoads(body) ==
    IF body.form \in {"original", "compact"}
    THEN [ok |-> TRUE, data |-> body.data]
    ELSE [ok |-> FALSE, data |-> NoData]

\* json.dumps(data, separators=(',', ':')).encode('utf-8')
JsonDumps(d) == Body("compact", d)

\* len(body): the compact text of a value has no space after its separators, the
\* client's text is taken to have one after each
BodyLength(body) ==
    LET n == IF body.data.has_messages THEN Len(body.data.messages) ELSE 0 IN
    CASE body.form = "empty" -> 0
      [] body.form = "invalid" -> 7
      [] body.form = "compact" -> 2 + 40 * n
      [] OTHER -> 2 + 44 * n

\* ------------------------------------------------------------ headers
\* A header value as str.split() sees it: the number of whitespace-separated parts,
\* the first part, and the secret that is the second part (NoSecret when none)
HeaderValue(parts, scheme, token) == [parts |-> parts, scheme |-> scheme, token |-> token]
Bearer(secret) == HeaderValue(2, "Bearer", secret)
REDACTED == HeaderValue(1, "[REDACTED]", NoSecret)
USER_AGENT == HeaderValue(1, "Cerebras-Proxy/1.0", NoSecret)

\* the tokens clients send: one the key database knows and one it has revoked
GoodToken == Secret("client", 1)
RevokedToken == Secret("client", 0)

\* IncomingKeyManager.verify_api_key: the key exists and is not revoked
verify_api_key(api_key) == api_key = GoodToken

\* the empty string as a header value: no parts
EmptyValue == HeaderValue(0, "", NoSecret)

\* the Authorization values of the model: two bearer tokens, a scheme that is not
\* bearer, a value of one part, and the empty value
AuthorizationValues ==
    {Bearer(GoodToken), Bearer(RevokedToken),
     HeaderValue(2, "Basic", GoodToken), HeaderValue(1, "Bearer", NoSecret), EmptyValue}

\* the spellings of the Authorization header name as the handler finds them in
\* dict(request.headers): the HTTP parser hands the name on in its canonical form or
\* as the client wrote it
AuthorizationNames == {"Authorization", "authorization", "AUTHORIZATION"}

\* str.lower() on the header names of the model
Lower(name) ==
    CASE name \in AuthorizationNames -> "authorization"
      [] name = "Accept" -> "accept"
      [] name = "User-Agent" -> "user-agent"
      [] OTHER -> name

\* headers are a set of <<name, value>> pairs with one value per name
AcceptHeader == <<"Accept", HeaderValue(1, "application/json", NoSecret)>>
Headers(name, value) == {AcceptHeader, <<name, value>>}
NoAuthorizationHeaders == {AcceptHeader}
DefaultHeaders == Headers("Authorization", Bearer(GoodToken))
HeaderSets ==
    {NoAuthorizationHeaders}
    \cup {Headers(name, value) : name \in AuthorizationNames, value \in AuthorizationValues}

\* request.headers.get('Authorization', ''): a case-insensitive lookup, the empty
\* string when there is no such header
GetAuthorization(headers) ==
    IF \E h \in headers : Lower(h[1]) = "authorization"
    THEN (CHOOSE h \in headers : Lower(h[1]) = "authorization")[2]
    ELSE EmptyValue

\* d[name] = value on a dict
DictSet(d, name, value) == {h \in d : h[1] # name} \cup {<<name, value>>}

\* a variant of the filter below that drops the exact name Authorization only
ForwardHeadersExactName(headers, secret) ==
    DictSet(DictSet({h \in headers : h[1] \notin {"Authorization", "Host", "Content-Length"}},
                    "Authorization", Bearer(secret)),
            "User-Agent", USER_AGENT)

\* the headers of an upstream request: the inbound ones except Authorization, Host and
\* Content-Length in any letter case, then Authorization: Bearer <secret> and User-Agent
ForwardHeaders(headers, secret) ==
    DictSet(DictSet({h \in headers :
                        Lower(h[1]) \notin {"authorization", "host", "content-length"}},
                    "Authorization", Bearer(secret)),
            "User-Agent", USER_AGENT)

\* _sanitize_headers: the keys Authorization and authorization are redacted
sanitize_headers(headers) ==
    {IF h[1] \in {"Authorization", "authorization"} THEN <<h[1], REDACTED>> ELSE h :
        h \in headers}

\* a variant of the authentication block that lets every request pass
AuthenticationSkipped(headers) == ""

\* the authentication block of proxy_handler: "" when the request passes, else the
\* error code of the 401
AuthenticationError(headers) ==
    LET auth_header == GetAuthorization(headers) IN
    IF auth_header.parts = 0 THEN "missing_authorization"
    ELSE IF auth_header.parts # 2 \/ auth_header.scheme \notin {"Bearer", "bearer"}
    THEN "invalid_authorization"
    ELSE IF ~verify_api_key(auth_header.token) THEN "invalid_api_key"
    ELSE ""

\* ------------------------------------------------------------ requests and replies
\* The Content-Length header: absent, a text int() rejects, or an integer
ContentLength(kind, value) == [kind |-> kind, value |-> value]
NoContentLength == ContentLength("absent", 0)
ContentLengths ==
    {NoContentLength, ContentLength("text", 0),
     ContentLength("int", CONTENT_LENGTH_THRESHOLD),
     ContentLength("int", CONTENT_LENGTH_THRESHOLD + 1)}

\* the request bodies of the model
Bodies ==
    {EmptyBody, InvalidBody,
     Body("original", NumberValue), Body("original", ArrayValue),
     Body("original", EmptyObject),
     Body("original", Object(<<UserMsg>>)),
     Body("original", Object(<<CallMsg(<<"t1">>), UserMsg>>)),
     Body("original", Object(<<ImageMsg>>)),
     Body("original", Object(<<ImageMsg, NullCallMsg>>))}

\* an inbound request: whether the path contains chat/completions, the method, the
\* Content-Length header and the body; a body-less request announces no positive length
Inbound(chat, method, cl, body) ==
    [chat |-> chat, method |-> method, content_length |-> cl, body |-> body,
     headers |-> DefaultHeaders]
WithHeaders(req, headers) == [req EXCEPT !.headers = headers]
NoInbound == Inbound(FALSE, "", NoContentLength, EmptyBody)
Inbounds ==
    {Inbound(chat, method, cl, body) :
        chat \in BOOLEAN, method \in {"GET", "POST"}, cl \in ContentLengths, body \in Bodies}
AllInbounds == {i \in Inbounds : i.body = EmptyBody => i.content_length.kind # "int"}

\* the shapes that decide the route: any path, Content-Length and body, posted
RoutingInbounds == {i \in AllInbounds : i.method = "POST"}

\* the shapes that decide what the attempt loop does: a chat completion with request
\* data to route, one whose data is {}, one whose repair raises, and a plain GET
EngineInbounds ==
    {Inbound(TRUE, "POST", NoContentLength, Body("original", Object(<<UserMsg>>))),
     Inbound(TRUE, "POST", NoContentLength, Body("original", EmptyObject)),
     Inbound(TRUE, "POST", NoContentLength, Body("original", Object(<<ImageMsg, NullCallMsg>>))),
     Inbound(TRUE, "POST", ContentLength("int", CONTENT_LENGTH_THRESHOLD + 1),
             Body("original", Object(<<UserMsg>>))),
     Inbound(FALSE, "GET", NoContentLength, EmptyBody)}

\* one shape for requests that run side by side
PlainInbounds ==
    {Inbound(TRUE, "POST", NoContentLength, Body("original", Object(<<UserMsg>>)))}

\* the shapes that matter to authentication, header forwarding and the capture: a
\* chat completion the repair rewrites, one it leaves alone and a GET, each with
\* every set of headers, and an oversize chat completion
CaptureInbounds ==
    {WithHeaders(Inbound(chat, method, NoContentLength, body), headers) :
        chat \in {TRUE}, method \in {"POST"}, headers \in HeaderSets,
        body \in {Body("original", Object(<<UserMsg>>)),
                  Body("original", Object(<<CallMsg(<<"t1">>), UserMsg>>))}}
    \cup {WithHeaders(Inbound(FALSE, "GET", NoContentLength, EmptyBody), headers) :
            headers \in HeaderSets}
    \cup {Inbound(TRUE, "POST", ContentLength("int", CONTENT_LENGTH_THRESHOLD + 1),
                  Body("original", Object(<<UserMsg>>)))}

\* the messages a repaired conversation is made of: a user message, assistant
\* messages declaring one call, two calls and the same id twice, one whose
\* tool_calls is null, tool responses, and a client's own "failed" tool response
RepairMessages ==
    {UserMsg, CallMsg(<<"t1">>), CallMsg(<<"t1", "t2">>), CallMsg(<<"t1", "t1">>),
     NullCallMsg, ToolMsg("t1"), ToolMsg("t2"), FakeResponse("t1")}

\* chat completions whose messages array is any sequence of at most MaxMessages
\* of these messages
RepairInbounds ==
    {Inbound(TRUE, "POST", NoContentLength, Body("original", Object(m))) :
        m \in UNION {[1..n -> RepairMessages] : n \in 0..MaxMessages}}

InboundsOf(s) ==
    CASE s = "routing" -> RoutingInbounds
      [] s = "repair" -> RepairInbounds
      [] s = "pool" -> PlainInbounds
      [] s = "live" -> PlainInbounds
      [] s = "engine" -> EngineInbounds
      [] s = "plain" -> PlainInbounds
      [] s = "capture" -> CaptureInbounds
      [] OTHER -> AllInbounds

\* what an upstream call ends in: a response (status, body) or a raised exception
Reply(kind, status, body) == [kind |-> kind, status |-> status, body |-> body]
NoReply == Reply("none", 0, "")
PrimaryReplies ==
    {Reply("response", 200, "completion"), Reply("response", 200, QUOTA_TEXT),
     Reply("response", 400, "context_length_exceeded"), Reply("response", 400, "error"),
     Reply("response", 404, "error"), Reply("response", 429, "error"),
     Reply("response", 500, "error"), Reply("response", 503, "error"),
     Reply("client_error", 0, ""), Reply("exception", 0, "")}
\* the outcomes that matter to the pool: a success, a 429 and a transport error
PoolReplies ==
    {Reply("response", 200, "completion"), Reply("response", 429, "error"),
     Reply("client_error", 0, "")}
PrimaryRepliesOf(s) == IF s \in {"pool", "live"} THEN PoolReplies ELSE PrimaryReplies

AlternativeReplies ==
    {Reply("response", st, "completion") : st \in {200, 500}}
    \cup {Reply("exception", 0, "")}

\* the response served to the client
Response(status, source, text) == [status |-> status, source |-> source, text |-> text]
NoResponse == Response(0, "none", "")
MAX_RETRIES_TEXT == "Service unavailable: Maximum retries exceeded."

\* an upstream request as sent: the upstream, the secret it was built with, its
\* headers, its body
Upstream(to, authorization, headers, body) ==
    [to |-> to, authorization |-> authorization, headers |-> headers, body |-> body]
NoUpstream == Upstream("none", NoSecret, {}, EmptyBody)

\* ------------------------------------------------------------ the capture
\* decode_body of _save_request_response_log: None for no bytes, the parsed value for
\* JSON, the text otherwise
DecodeBody(body) ==
    IF body.form = "empty" THEN NoData
    ELSE IF JsonLoads(body).ok THEN JsonLoads(body).data
    ELSE Data("text", FALSE, "", FALSE, <<>>)

\* the log entry written to the file: the request as recorded and the response
LogEntry(path_prefix, request_headers, request_body, response_status, response_body) ==
    [path_prefix |-> path_prefix,
     headers |-> sanitize_headers(request_headers),
     body |-> DecodeBody(request_body),
     status |-> response_status,
     response_body |-> response_body]
NoLog == [path_prefix |-> "none", headers |-> {}, body |-> NoData, status |-> 0,
          response_body |-> ""]

\* how writing the log file can end in a run: requests that run side by side are
\* modelled with a file system that does not fail
LogOutcomesOf(s) == IF s \in {"plain", "live"} THEN {"written"} ELSE {"written", "failed"}

\* a variant in which a failed write replaces the response by an error
FailedWriteIsAnError(resp, outcome) ==
    IF outcome = "failed" THEN Response(500, "proxy", "Internal Server Error") ELSE resp

\* the response returned after _save_request_response_log: the function catches
\* every Exception of the write and logs it, the response is returned as built
Served(resp, outcome) == resp

\* a variant that passes the body as forwarded to the capture
ForwardedRequestBody(h) == h.request_body

\* the request body passed to _save_request_response_log: original_request_body
OriginalRequestBody(h) == h.req.body

\* _save_request_response_log called for request locals h: the call is counted and
\* the entry kept when the file was written
SaveLog(h, hs, outcome, path_prefix, reply) ==
    [hs EXCEPT !.record_calls = @ + 1,
               !.log = IF outcome = "written"
                       THEN LogEntry(path_prefix, h.req.headers, OriginalRequestBody(h),
                                     reply.status, reply.body)
                       ELSE NoLog]

\* ------------------------------------------------------------ state
VARIABLES
    incoming_key_manager,  \* ProxyServer.incoming_key_manager is set (authentication on)
    synthetic_api_key,     \* ProxyServer.synthetic_api_key (NoSecret when unset)
    zai_api_key,           \* ProxyServer.zai_api_key (NoSecret when unset)
    fallback_on_cooldown,  \* ProxyServer.fallback_on_cooldown
    shapes,                \* which request shapes clients send in this run
    cooldown_seconds,      \* ApiKeyManager._cooldown_seconds
    key_states,            \* ApiKeyManager._key_states
    current_index,         \* ApiKeyManager._current_index (0-based)
    lock_owner,            \* ApiKeyManager._lock: the task holding it, or NoTask
    lock_waiters,          \* ApiKeyManager._lock: tasks queued in acquire(), first first
    now,                   \* time.time()
    running,               \* the task the event loop is running, or NoTask
    pc,                    \* each task's position
    handler,               \* each request's proxy_handler locals
    hist                   \* each request's record of what it did (for the properties)

config == <<incoming_key_manager, synthetic_api_key, zai_api_key, fallback_on_cooldown,
            shapes, cooldown_seconds>>
pool == <<key_states, current_index>>
lock == <<lock_owner, lock_waiters>>
vars == <<incoming_key_manager, synthetic_api_key, zai_api_key, fallback_on_cooldown, shapes,
          cooldown_seconds, key_states, current_index, lock_owner, lock_waiters, now, running, pc, handler, hist>>

InitialHandler ==
    [req |-> NoInbound, request_body |-> EmptyBody, request_data_for_routing |-> NoData,
     attempt |-> 0, api_key |-> NoSecret, reply |-> NoReply, outcome |-> "",
     rescue_data |-> NoData, response |-> NoResponse,
     content_length |-> NoContentLength]

InitialHist ==
    [primary_calls |-> 0, synthetic_calls |-> 0, zai_calls |-> 0,
     rescue |-> "", override_model |-> "", upstream |-> NoUpstream,
     last |-> NoReply, success_marked |-> FALSE,
     synthetic_last |-> NoReply, zai_last |-> NoReply,
     record_calls |-> 0, log |-> NoLog]

\* the state after ProxyServer.__init__ with a pool of n keys; whether
\* incoming_key_manager is set is left to the specification
InitWith(n, live, sent) ==
    /\ synthetic_api_key \in {NoSecret, Secret("synthetic", 0)}
    /\ zai_api_key \in {NoSecret, Secret("zai", 0)}
    /\ fallback_on_cooldown \in BOOLEAN
    /\ shapes = sent
    /\ key_states = InitialKeyStates(n)
    /\ current_index = 0
    /\ lock_owner = NoTask
    /\ lock_waiters = <<>>
    /\ now = 0
    /\ running = NoTask
    /\ pc = [t \in Tasks |-> IF t \in live THEN "idle" ELSE "absent"]
    /\ handler = [r \in Requests |-> InitialHandler]
    /\ hist = [r \in Requests |-> InitialHist]

\* a variant of the attempt bound that allows three sweeps of the pool
ThreeSweeps == Len(key_states) * 3

\* the attempt bound of the retry loop
max_retries == Len(key_states) * 2

AnyRescueKey == synthetic_api_key # NoSecret \/ zai_api_key # NoSecret

\* the pool lock can be taken without waiting: acquire() finds it unlocked with no
\* waiter queued, or the task was handed the lock when woken
LockFree(t) == lock_owner = t \/ (lock_owner = NoTask /\ lock_waiters = <<>>)

\* ------------------------------------------------------------ pure steps of the handler
\* the early routing decision on Content-Length: the body is read for oversize routing
IsOversize(req) ==
    /\ req.content_length.kind # "absent"
    /\ req.chat
    /\ req.content_length.kind = "int"
    /\ req.content_length.value > CONTENT_LENGTH_THRESHOLD

\* a variant that forwards the serialized data whenever the fix returned
ReserializeAlways(req) ==
    LET parsed == JsonLoads(req.body)
        d == parsed.data
    IN  IF req.chat /\ parsed.ok /\ d.kind = "object" /\ d.has_messages
           /\ ~FixRaises(d.messages)
        THEN [request_body |-> JsonDumps([d EXCEPT !.messages =
                                             fix_missing_tool_responses(d.messages)]),
              routing |-> [d EXCEPT !.messages = fix_missing_tool_responses(d.messages)]]
        ELSE [request_body |-> req.body,
              routing |-> IF req.chat /\ parsed.ok /\ d.kind = "object" THEN d ELSE NoData]

\* the Content-Length header of the forwarded request: set from the body to forward
\* when there is one
ForwardContentLength(request_body) ==
    IF request_body.form # "empty"
    THEN ContentLength("int", BodyLength(request_body))
    ELSE NoContentLength

\* the tool_call fix block: the body to forward and request_data_for_routing
RepairStep(req) ==
    LET keep == [request_body |-> req.body, routing |-> NoData]
        parsed == JsonLoads(req.body)
        d == parsed.data
    IN  IF ~(req.chat /\ req.body.form # "empty") THEN keep
        ELSE IF ~parsed.ok THEN keep
        ELSE IF d.kind # "object" THEN keep
        ELSE IF ~d.has_messages THEN [request_body |-> req.body, routing |-> d]
        ELSE IF FixRaises(d.messages) THEN keep
        ELSE LET fixed == fix_missing_tool_responses(d.messages) IN
             IF Len(fixed) > Len(d.messages)
             THEN [request_body |-> JsonDumps([d EXCEPT !.messages = fixed]),
                   routing |-> [d EXCEPT !.messages = fixed]]
             ELSE [request_body |-> req.body, routing |-> d]

\* the image check of the handler
IsVision(routing) == Truthy(routing) /\ has_image_content(routing.messages)

\* the error code read from a 400 body
IsContextLengthExceeded(reply) == reply.body = "context_length_exceeded"

\* the embedded quota message in the first choice's content
IsEmbeddedQuota(reply) == reply.body = QUOTA_TEXT

\* what the handler does with a primary response; can_route is
\* (synthetic_api_key or zai_api_key) and request_data_for_routing
ClassifyResponse(reply, can_route) ==
    CASE reply.status = 429 -> "rotate"
      [] reply.status = 500 -> "rotate"
      [] reply.status = 400 ->
            IF IsContextLengthExceeded(reply) /\ can_route THEN "rescue" ELSE "fall_through"
      [] reply.status = 503 -> IF can_route THEN "rescue" ELSE "fall_through"
      [] OTHER ->
            IF reply.status < 400
            THEN IF IsEmbeddedQuota(reply) /\ can_route THEN "rescue" ELSE "success"
            ELSE "return"

RescueReason(reply) ==
    CASE reply.status = 400 -> "context_length"
      [] reply.status = 503 -> "unavailable"
      [] OTHER -> "embedded_quota"

\* a variant in which the all_keys_rate_limited check follows every mark, the one
\* for a client error too
CheckAfterEveryMark(outcome, fallback) == IF fallback THEN "all_check" ELSE "loop"

\* where the handler goes after mark_key_rate_limited: a 429 or 500 is followed by
\* the all_keys_rate_limited check when fallback is enabled, a client error by
\* `continue`
AfterMark(outcome, fallback) ==
    IF outcome = "pressure" /\ fallback THEN "all_check" ELSE "loop"

\* the payload for an alternative API: the model key, when present, is replaced
WithModel(d, m) == IF d.has_model THEN [d EXCEPT !.model = m] ELSE d

\* ------------------------------------------------------------ action fragments
\* task r moves to position p with locals h and record hs; run is the task that
\* holds the event loop afterwards
Set(r, p, h, hs, run) ==
    /\ pc' = [pc EXCEPT ![r] = p]
    /\ handler' = [handler EXCEPT ![r] = h]
    /\ hist' = [hist EXCEPT ![r] = hs]
    /\ running' = run

\* return web.Response(...): the handler ends
Respond(r, h, hs, resp) == Set(r, "done", [h EXCEPT !.response = resp], hs, NoTask)

\* _save_request_response_log, then return response
RespondLogged(r, h, hs, path_prefix, reply, resp) ==
    \E outcome \in LogOutcomesOf(shapes) :
        Respond(r, h, SaveLog(h, hs, outcome, path_prefix, reply), Served(resp, outcome))

\* session.request(method, target_url, headers, data=request_body) with
\* Authorization: Bearer <api_key>; the task suspends until the primary answers
SendPrimary(r, h, hs, key) ==
    Set(r, "await_primary", [h EXCEPT !.api_key = key],
        [hs EXCEPT !.primary_calls = @ + 1,
                   !.upstream = Upstream("primary", key,
                                         ForwardHeaders(h.req.headers, key),
                                         IF h.req.method = "GET" THEN EmptyBody
                                         ELSE h.request_body)],
        NoTask)

\* the 503 of _route_to_alternative_api when Z.ai has no key
NoAlternativeResponse == Response(503, "proxy", "No alternative APIs configured")

\* the 503 of _route_to_alternative_api when the call to Z.ai raised
AlternativesFailedResponse == Response(503, "proxy", "All alternative APIs failed")

\* a variant that falls back to Z.ai whatever Synthetic answers
SyntheticNeverSucceeds(reply) == FALSE

\* `if resp.status < 400` on Synthetic's answer: return it; an error status or an
\* exception falls back to Z.ai
SyntheticSucceeded(reply) == reply.kind = "response" /\ reply.status < 400

\* a variant that hides an error status of Z.ai behind the proxy's own 503
ZaiErrorHidden(reply) ==
    IF reply.kind = "response" /\ reply.status < 400
    THEN Response(reply.status, "zai", reply.body)
    ELSE AlternativesFailedResponse

\* what is returned once Z.ai was called: its response whatever the status, or the
\* 503 for an exception
ZaiResponse(reply) ==
    IF reply.kind = "response" THEN Response(reply.status, "zai", reply.body)
    ELSE AlternativesFailedResponse

\* a variant that posts to Z.ai whether or not it has a key
ZaiAlways(r, h, hs) ==
    Set(r, "await_zai", h,
        [hs EXCEPT !.zai_calls = @ + 1,
                   !.upstream = Upstream("zai", zai_api_key,
                                         ForwardHeaders(h.req.headers, zai_api_key),
                                         JsonDumps(WithModel(h.rescue_data, ZAI_MODEL)))],
        NoTask)

\* _route_to_alternative_api, the Z.ai part: post to Z.ai, or 503 when it has no key
ZaiFallback(r, h, hs) ==
    IF zai_api_key # NoSecret
    THEN Set(r, "await_zai", h,
             [hs EXCEPT !.zai_calls = @ + 1,
                        !.upstream = Upstream("zai", zai_api_key,
                                              ForwardHeaders(h.req.headers, zai_api_key),
                                              JsonDumps(WithModel(h.rescue_data, ZAI_MODEL)))],
             NoTask)
    ELSE Respond(r, h, hs, NoAlternativeResponse)

\* a variant that notes the hand-off and then sends the request to the primary again
RescueThenPrimary(r, h, hs, data, why, override) ==
    SendPrimary(r, [h EXCEPT !.rescue_data = data],
                [hs EXCEPT !.rescue = why, !.override_model = override],
                key_states[current_index + 1].key)

\* _route_to_alternative_api up to its first upstream call: post to Synthetic when
\* it has a key, else go on to Z.ai
RouteToAlternative(r, h, hs, data, why, override) ==
    LET synthetic_model == IF override # "" THEN override ELSE SYNTHETIC_MODEL
        h1 == [h EXCEPT !.rescue_data = data]
        hs1 == [hs EXCEPT !.rescue = why, !.override_model = override]
    IN  IF synthetic_api_key # NoSecret
        THEN Set(r, "await_synthetic", h1,
                 [hs1 EXCEPT !.synthetic_calls = @ + 1,
                             !.upstream = Upstream("synthetic", synthetic_api_key,
                                               ForwardHeaders(h.req.headers, synthetic_api_key),
                                               JsonDumps(WithModel(data, synthetic_model)))],
                 NoTask)
        ELSE ZaiFallback(r, h1, hs1)

\* a variant in which the lock is never released
NeverRelease == UNCHANGED <<lock_owner, lock_waiters>>

\* release of the pool lock at the end of `async with self._lock`
Release == lock_owner' = NoTask /\ UNCHANGED lock_waiters

\* ------------------------------------------------------------ the handler, step by step
\* proxy_handler from its start to the first read of the body: with authentication
\* on, a request that fails it is answered 401; the Content-Length check decides
\* whether the body is read for oversize routing
Receive(r) ==
    /\ running = NoTask
    /\ pc[r] = "idle"
    /\ \E req \in InboundsOf(shapes) :
          LET h == [handler[r] EXCEPT !.req = req]
              code == AuthenticationError(req.headers)
          IN  IF incoming_key_manager /\ code # ""
              THEN Respond(r, h, hist[r], Response(401, "proxy", code))
              ELSE Set(r, IF IsOversize(req) THEN "read_oversize" ELSE "read_body",
                       h, hist[r], NoTask)
    /\ UNCHANGED <<config, pool, lock, now>>

\* the oversize branch once the body is read: parse it and route to the alternative
\* APIs; a JSONDecodeError, or the TypeError of `'model' in <number>`, is swallowed
\* and the handler continues normally
OversizeRoute(r) ==
    /\ running = NoTask
    /\ pc[r] = "read_oversize"
    /\ LET parsed == JsonLoads(handler[r].req.body) IN
       IF parsed.ok /\ parsed.data.kind # "number"
       THEN RouteToAlternative(r, handler[r], hist[r], parsed.data, "oversize", "")
       ELSE Set(r, "prepare", handler[r], hist[r], r)
    /\ UNCHANGED <<config, pool, lock, now>>

\* request.read() of the normal path completes
ReadBody(r) ==
    /\ running = NoTask
    /\ pc[r] = "read_body"
    /\ Set(r, "prepare", handler[r], hist[r], r)
    /\ UNCHANGED <<config, pool, lock, now>>

\* the tool_call fix, the forwarded headers with their Content-Length, and the
\* image check
Prepare(r) ==
    /\ running = r
    /\ pc[r] = "prepare"
    /\ LET fix == RepairStep(handler[r].req)
           h == [handler[r] EXCEPT !.request_body = fix.request_body,
                                   !.request_data_for_routing = fix.routing,
                                   !.content_length =
                                       ForwardContentLength(fix.request_body)]
       IN  IF IsVision(fix.routing) /\ synthetic_api_key # NoSecret
           THEN RouteToAlternative(r, h, hist[r], fix.routing, "vision",
                                   SYNTHETIC_VISION_MODEL)
           ELSE Set(r, IF fallback_on_cooldown THEN "fallback_check" ELSE "select",
                    h, hist[r], r)
    /\ UNCHANGED <<config, pool, lock, now>>

\* the check before the retry loop: all keys rate-limited and fallback enabled
FallbackCheck(r) ==
    /\ running = r
    /\ pc[r] = "fallback_check"
    /\ LockFree(r)
    /\ Release
    /\ LET h == handler[r]
           reparse == h.request_data_for_routing = NoData /\ h.req.chat
                      /\ h.req.body.form # "empty" /\ JsonLoads(h.req.body).ok
           routing == IF reparse THEN JsonLoads(h.req.body).data
                      ELSE h.request_data_for_routing
           h1 == [h EXCEPT !.request_data_for_routing = routing]
       IN  IF AllKeysRateLimited(key_states, now) /\ AnyRescueKey
           THEN IF ~Truthy(routing) THEN Set(r, "select", h1, hist[r], r)
                ELSE IF routing.kind = "number"
                THEN Respond(r, h1, hist[r], Response(500, "proxy", "Internal Server Error"))
                ELSE RouteToAlternative(r, h1, hist[r], routing, "cooldown", "")
           ELSE Set(r, "select", h, hist[r], r)
    /\ UNCHANGED <<config, pool, now>>

\* get_current_key, the scan under the lock: an available key is returned and the
\* request sent with it; with none, the lock stays held for the wait
Select(r) ==
    /\ running = r
    /\ pc[r] = "select"
    /\ LockFree(r)
    /\ LET scan == ScanKeys(key_states, current_index, now, Len(key_states)) IN
       /\ current_index' = scan.index
       /\ IF scan.found
          THEN /\ SendPrimary(r, handler[r], hist[r], key_states[scan.index + 1].key)
               /\ Release
          ELSE /\ Set(r, "select_wait", handler[r], hist[r], r)
               /\ lock_owner' = r
               /\ UNCHANGED lock_waiters
    /\ UNCHANGED <<config, key_states, now>>

\* get_current_key after a scan that found no key: the wait time to the soonest key;
\* sleep if it is positive, else return the key at the current index
SelectWait(r) ==
    /\ running = r
    /\ pc[r] = "select_wait"
    /\ LET wait_time == WaitTime(key_states, now)
       IN  IF wait_time > 0
           THEN /\ Set(r, "sleeping", handler[r], hist[r], NoTask)
                /\ UNCHANGED lock
           ELSE /\ SendPrimary(r, handler[r], hist[r], key_states[current_index + 1].key)
                /\ Release
    /\ UNCHANGED <<config, pool, now>>

\* asyncio.sleep(wait_time) is over: the index moves to the soonest key, which is
\* returned, and the lock is released
Wake(r) ==
    /\ running = NoTask
    /\ pc[r] = "sleeping"
    /\ LET soonest == SoonestAvailable(key_states) IN
       /\ now >= key_states[soonest + 1].rate_limited_until
       /\ current_index' = soonest
       /\ SendPrimary(r, handler[r], hist[r], key_states[soonest + 1].key)
    /\ Release
    /\ UNCHANGED <<config, key_states, now>>

\* a variant in which every raised exception is handled as a client error
EveryErrorIsClientError(reply) == reply.kind # "response"

\* `except aiohttp.ClientError`: the exception raised by the attempt is a transport
\* error of the client session
IsClientError(reply) == reply.kind = "client_error"

\* the primary answers, or the call raises: the handler classifies the outcome
PrimaryResponds(r) ==
    /\ running = NoTask
    /\ pc[r] = "await_primary"
    /\ \E reply \in PrimaryRepliesOf(shapes) :
        LET h == handler[r]
            hs == [hist[r] EXCEPT !.last = reply]
            can_route == AnyRescueKey /\ Truthy(h.request_data_for_routing)
            decision == ClassifyResponse(reply, can_route)
        IN  IF reply.kind # "response"
            THEN IF IsClientError(reply)
                 THEN Set(r, "mark_rate_limited", [h EXCEPT !.outcome = "transport"], hs, r)
                 ELSE Respond(r, h, hs, Response(500, "proxy", "Proxy error"))
            ELSE
                CASE decision = "rotate" ->
                        Set(r, "mark_rate_limited", [h EXCEPT !.outcome = "pressure"], hs, r)
                  [] decision = "rescue" ->
                        RouteToAlternative(r, h, hs, h.request_data_for_routing,
                                           RescueReason(reply), "")
                  [] decision = "fall_through" -> Set(r, "loop", h, hs, r)
                  [] decision = "success" ->
                        Set(r, "mark_success", [h EXCEPT !.reply = reply], hs, r)
                  [] OTHER ->
                        RespondLogged(r, h, hs, "", reply,
                                      Response(reply.status, "primary", reply.body))
    /\ UNCHANGED <<config, pool, lock, now>>

\* mark_key_rate_limited(api_key) after a 429, a 500 or a client error
MarkRateLimited(r) ==
    /\ running = r
    /\ pc[r] = "mark_rate_limited"
    /\ LockFree(r)
    /\ Release
    /\ LET marked == MarkKeyRateLimited(key_states, current_index, handler[r].api_key, now,
                                     cooldown_seconds) IN
       /\ key_states' = marked.states
       /\ current_index' = marked.index
    /\ Set(r, AfterMark(handler[r].outcome, fallback_on_cooldown),
           [handler[r] EXCEPT !.outcome = ""], hist[r], r)
    /\ UNCHANGED <<config, now>>

\* after a 429 or 500 with fallback enabled: all_keys_rate_limited, then the
\* alternative APIs if there is a key for one and request data to route
AllCheck(r) ==
    /\ running = r
    /\ pc[r] = "all_check"
    /\ LockFree(r)
    /\ Release
    /\ IF /\ AllKeysRateLimited(key_states, now)
          /\ AnyRescueKey
          /\ Truthy(handler[r].request_data_for_routing)
       THEN RouteToAlternative(r, handler[r], hist[r], handler[r].request_data_for_routing,
                               "cooldown", "")
       ELSE Set(r, "loop", handler[r], hist[r], r)
    /\ UNCHANGED <<config, pool, now>>

\* the for loop goes to its next attempt, or ends: 503 Maximum retries exceeded
Loop(r) ==
    /\ running = r
    /\ pc[r] = "loop"
    /\ IF handler[r].attempt + 1 < max_retries
       THEN Set(r, "select", [handler[r] EXCEPT !.attempt = @ + 1], hist[r], r)
       ELSE Respond(r, handler[r], hist[r], Response(503, "proxy", MAX_RETRIES_TEXT))
    /\ UNCHANGED <<config, pool, lock, now>>

\* mark_key_success(api_key), then the capture, then the primary's response is returned
MarkSuccess(r) ==
    /\ running = r
    /\ pc[r] = "mark_success"
    /\ LockFree(r)
    /\ Release
    /\ key_states' = MarkKeySuccess(key_states, handler[r].api_key)
    /\ RespondLogged(r, [handler[r] EXCEPT !.reply = NoReply],
                     [hist[r] EXCEPT !.success_marked = TRUE], "", handler[r].reply,
                     Response(handler[r].reply.status, "primary", handler[r].reply.body))
    /\ UNCHANGED <<config, current_index, now>>

\* Synthetic answers: a status below 400 is returned, anything else goes on to Z.ai
SyntheticResponds(r) ==
    /\ running = NoTask
    /\ pc[r] = "await_synthetic"
    /\ \E reply \in AlternativeReplies :
          LET hs == [hist[r] EXCEPT !.synthetic_last = reply] IN
          IF SyntheticSucceeded(reply)
          THEN RespondLogged(r, handler[r], hs, "[SYNTHETIC]", reply,
                             Response(reply.status, "synthetic", reply.body))
          ELSE ZaiFallback(r, handler[r], hs)
    /\ UNCHANGED <<config, pool, lock, now>>

\* Z.ai answers: its response is returned whatever the status; an exception is a 503
ZaiResponds(r) ==
    /\ running = NoTask
    /\ pc[r] = "await_zai"
    /\ \E reply \in AlternativeReplies :
          LET hs == [hist[r] EXCEPT !.zai_last = reply] IN
          IF reply.kind = "response"
          THEN RespondLogged(r, handler[r], hs, "[ZAI]", reply, ZaiResponse(reply))
          ELSE Respond(r, handler[r], hs, ZaiResponse(reply))
    /\ UNCHANGED <<config, pool, lock, now>>

\* ------------------------------------------------------------ the lock, the status task, time
\* Lock.acquire() when the lock is held or has waiters: queue and suspend
LockWait(t) ==
    /\ running = t
    /\ pc[t] \in {"fallback_check", "select", "mark_rate_limited", "all_check",
                  "mark_success", "get_status"}
    /\ ~LockFree(t)
    /\ lock_waiters' = Append(lock_waiters, t)
    /\ running' = NoTask
    /\ UNCHANGED <<config, pool, lock_owner, now, pc, handler, hist>>

\* the first waiter, woken by release(), runs again and takes the lock
LockGranted(t) ==
    /\ running = NoTask
    /\ lock_owner = NoTask
    /\ lock_waiters # <<>>
    /\ Head(lock_waiters) = t
    /\ lock_waiters' = Tail(lock_waiters)
    /\ lock_owner' = t
    /\ running' = t
    /\ UNCHANGED <<config, pool, now, pc, handler, hist>>

\* GET /_status arrives
StatusHandler ==
    /\ running = NoTask
    /\ pc[StatusTask] = "idle"
    /\ pc' = [pc EXCEPT ![StatusTask] = "get_status"]
    /\ running' = StatusTask
    /\ UNCHANGED <<config, pool, lock, now, handler, hist>>

\* get_status under the lock; the snapshot is the response
StatusResponds ==
    /\ running = StatusTask
    /\ pc[StatusTask] = "get_status"
    /\ LockFree(StatusTask)
    /\ Release
    /\ GetStatus(key_states, current_index, now).current_key = key_states[current_index + 1].name
    /\ pc' = [pc EXCEPT ![StatusTask] = "done"]
    /\ running' = NoTask
    /\ UNCHANGED <<config, pool, now, handler, hist>>

\* the last clock reading of a run.  Where termination is at stake the clock runs
\* as far as any cooldown can reach: a key is marked at most once per attempt, each
\* mark sets rate_limited_until to now + cooldown_seconds, and the clock moves only
\* while a key is rate-limited, so it never passes attempts * cooldown_seconds
TimeLimit ==
    IF shapes = "live" THEN NumRequests * max_retries * cooldown_seconds ELSE MaxTime

\* the clock advances.  The program reads the clock only to compare it with, or to
\* set, a rate_limited_until: while no key is rate-limited a tick changes nothing it
\* can observe, and the model's clock stands still.
Tick ==
    /\ now < TimeLimit
    /\ \E i \in 1..Len(key_states) : key_states[i].rate_limited_until > now
    /\ now' = now + 1
    /\ UNCHANGED <<config, pool, lock, running, pc, handler, hist>>

Next ==
    \/ \E r \in Requests : Receive(r)
    \/ \E r \in Requests : OversizeRoute(r)
    \/ \E r \in Requests : ReadBody(r)
    \/ \E r \in Requests : Prepare(r)
    \/ \E r \in Requests : FallbackCheck(r)
    \/ \E r \in Requests : Select(r)
    \/ \E r \in Requests : SelectWait(r)
    \/ \E r \in Requests : Wake(r)
    \/ \E r \in Requests : PrimaryResponds(r)
    \/ \E r \in Requests : MarkRateLimited(r)
    \/ \E r \in Requests : AllCheck(r)
    \/ \E r \in Requests : Loop(r)
    \/ \E r \in Requests : MarkSuccess(r)
    \/ \E r \in Requests : SyntheticResponds(r)
    \/ \E r \in Requests : ZaiResponds(r)
    \/ \E t \in Tasks : LockWait(t)
    \/ \E t \in Tasks : LockGranted(t)
    \/ StatusHandler
    \/ StatusResponds
    \/ Tick

\* the steps requests of the plain shape can take when Z.ai has no key and no
\* status request arrives
NextConcurrent ==
    \/ \E r \in Requests : Receive(r)
    \/ \E r \in Requests : ReadBody(r)
    \/ \E r \in Requests : Prepare(r)
    \/ \E r \in Requests : FallbackCheck(r)
    \/ \E r \in Requests : Select(r)
    \/ \E r \in Requests : SelectWait(r)
    \/ \E r \in Requests : Wake(r)
    \/ \E r \in Requests : PrimaryResponds(r)
    \/ \E r \in Requests : MarkRateLimited(r)
    \/ \E r \in Requests : AllCheck(r)
    \/ \E r \in Requests : Loop(r)
    \/ \E r \in Requests : MarkSuccess(r)
    \/ \E r \in Requests : SyntheticResponds(r)
    \/ \E t \in Tasks : LockWait(t)
    \/ \E t \in Tasks : LockGranted(t)
    \/ Tick

\* the attempt loop: one request of a shape that matters to the loop, a pool of
\* 1..MaxKeys keys, any configuration, and the status task beside it
Init ==
    /\ \E n \in 1..MaxKeys : InitWith(n, {1, StatusTask}, "engine")
    /\ incoming_key_manager = FALSE
    /\ cooldown_seconds = CooldownSeconds

Spec == Init /\ [][Next]_vars

\* the route classifier: one posted request of any path, Content-Length and body,
\* a pool of one key, any configuration
InitRoute ==
    /\ InitWith(1, {1, StatusTask}, "routing")
    /\ incoming_key_manager = FALSE
    /\ cooldown_seconds = CooldownSeconds

SpecRoute == InitRoute /\ [][Next]_vars

\* concurrency: every request of the model live at once on a pool of MaxKeys keys,
\* with fallback enabled and Synthetic configured; no status request
InitConcurrent ==
    /\ InitWith(MaxKeys, Requests, "plain")
    /\ incoming_key_manager = FALSE
    /\ cooldown_seconds = CooldownSeconds
    /\ fallback_on_cooldown
    /\ synthetic_api_key # NoSecret
    /\ zai_api_key = NoSecret

SpecConcurrent == InitConcurrent /\ [][NextConcurrent]_vars

\* authentication, header forwarding and the capture: one request with any set of
\* headers, a pool of one key, authentication on or off, any configuration
InitCapture ==
    /\ InitWith(1, {1, StatusTask}, "capture")
    /\ incoming_key_manager \in BOOLEAN
    /\ cooldown_seconds = CooldownSeconds

SpecCapture == InitCapture /\ [][Next]_vars

\* the steps of a request up to the end of the tool_call fix
NextRepair ==
    \/ \E r \in Requests : Receive(r)
    \/ \E r \in Requests : ReadBody(r)
    \/ \E r \in Requests : Prepare(r)

\* the repair of the messages array: one chat completion with any messages array of
\* the model, followed up to the end of the tool_call fix
InitRepair ==
    /\ InitWith(1, {1}, "repair")
    /\ incoming_key_manager = FALSE
    /\ cooldown_seconds = CooldownSeconds
    /\ synthetic_api_key = NoSecret
    /\ zai_api_key = NoSecret

SpecRepair == InitRepair /\ [][NextRepair]_vars

\* the steps of requests and of the status request on the pool when Z.ai has no key
NextPool ==
    \/ \E r \in Requests : Receive(r)
    \/ \E r \in Requests : ReadBody(r)
    \/ \E r \in Requests : Prepare(r)
    \/ \E r \in Requests : FallbackCheck(r)
    \/ \E r \in Requests : Select(r)
    \/ \E r \in Requests : SelectWait(r)
    \/ \E r \in Requests : Wake(r)
    \/ \E r \in Requests : PrimaryResponds(r)
    \/ \E r \in Requests : MarkRateLimited(r)
    \/ \E r \in Requests : AllCheck(r)
    \/ \E r \in Requests : Loop(r)
    \/ \E r \in Requests : MarkSuccess(r)
    \/ \E r \in Requests : SyntheticResponds(r)
    \/ \E t \in Tasks : LockWait(t)
    \/ \E t \in Tasks : LockGranted(t)
    \/ StatusHandler
    \/ StatusResponds
    \/ Tick

\* the credential pool: every request of the model and a status request live at
\* once on a pool of MaxKeys keys whose cooldown is CooldownSeconds or one second
\* more, with fallback enabled or disabled and Synthetic configured
InitPool ==
    /\ InitWith(MaxKeys, Tasks, "pool")
    /\ incoming_key_manager = FALSE
    /\ cooldown_seconds \in CooldownSeconds..(CooldownSeconds + 1)
    /\ synthetic_api_key # NoSecret
    /\ zai_api_key = NoSecret

SpecPool == InitPool /\ [][NextPool]_vars

\* termination: every request of the model live at once on a pool of MaxKeys keys,
\* with fallback enabled or disabled and Synthetic configured or not
InitLive ==
    /\ InitWith(MaxKeys, Requests, "live")
    /\ incoming_key_manager = FALSE
    /\ cooldown_seconds = CooldownSeconds
    /\ zai_api_key = NoSecret

\* the steps the event loop owes a request once it has arrived: its own handler
\* steps, and its turns at the lock
Handles(r) ==
    \/ ReadBody(r) \/ Prepare(r) \/ FallbackCheck(r) \/ Select(r) \/ SelectWait(r)
    \/ Wake(r) \/ PrimaryResponds(r) \/ MarkRateLimited(r) \/ AllCheck(r) \/ Loop(r)
    \/ MarkSuccess(r) \/ SyntheticResponds(r) \/ LockWait(r) \/ LockGranted(r)

\* the event loop runs every ready task, every upstream call completes, and time
\* passes
Fairness == WF_vars(Tick) /\ \A r \in Requests : WF_vars(Handles(r))

SpecLive == InitLive /\ [][NextConcurrent]_vars /\ Fairness

TypeOK ==
    /\ current_index \in 0..(Len(key_states) - 1)
    /\ running \in Tasks \cup {NoTask}

\* ------------------------------------------------------------ properties
\* the outcome classes of a primary reply
IsKeyPressure(reply) == reply.kind = "response" /\ reply.status \in ROTATE_KEY_ERROR_CODES
IsTransport(reply) == reply.kind = "client_error"
IsOk(reply) == reply.kind = "response" /\ reply.status < 400
IsOverContext(reply) ==
    reply.kind = "response" /\ reply.status = 400 /\ IsContextLengthExceeded(reply)
IsUnavailable(reply) == reply.kind = "response" /\ reply.status = 503
IsOther(reply) ==
    /\ reply.kind = "response"
    /\ ~IsOk(reply) /\ ~IsKeyPressure(reply) /\ ~IsOverContext(reply) /\ ~IsUnavailable(reply)

\* a chat-completion request with a JSON-object body
IsJsonObjectChat(req) == req.chat /\ JsonLoads(req.body).ok /\ req.body.data.kind = "object"

\* a chat-completion request one of whose messages holds an image_url element
IsImageChat(req) ==
    /\ IsJsonObjectChat(req)
    /\ req.body.data.has_messages
    /\ has_image_content(req.body.data.messages)

\* the primary's response as received, served to the client
AsReceived(reply) == Response(reply.status, "primary", reply.body)

\* C1: a primary response that is not Ok, KeyPressure, OverContext or Unavailable (a
\* 404, a 400 with another error code) is returned to the client, status and body,
\* on the attempt that received it: the request is done, with that response.
C1_OtherReturnedAtOnce ==
    \A r \in Requests :
        IsOther(hist[r].last) =>
            pc[r] = "done" /\ handler[r].response = AsReceived(hist[r].last)

\* C2: with no rescue credential, an OverContext or Unavailable response of the
\* primary is returned to the caller as received, by the attempt that got it.
C2_ReturnedWithoutRescueKey ==
    \A r \in Requests :
        (~AnyRescueKey /\ (IsOverContext(hist[r].last) \/ IsUnavailable(hist[r].last))) =>
            pc[r] = "done" /\ handler[r].response = AsReceived(hist[r].last)

\* C3: a request contacts the primary at most K = 2*N times; it is never on its way to
\* another attempt once K are made, and a request that ends after K attempts with
\* neither the primary's response, a proxy error nor a hand-off to Rescue is answered
\* 503 "Service unavailable: Maximum retries exceeded."; that answer is given only then.
MaxRetriesResponse == Response(503, "proxy", MAX_RETRIES_TEXT)

C3_AtMostKAttempts ==
    \A r \in Requests :
        /\ hist[r].primary_calls <= 2 * Len(key_states)
        /\ pc[r] \in {"select", "select_wait", "sleeping"} =>
              hist[r].primary_calls < 2 * Len(key_states)
        /\ (/\ pc[r] = "done"
            /\ hist[r].primary_calls = 2 * Len(key_states)
            /\ hist[r].rescue = ""
            /\ handler[r].response.source # "primary"
            /\ handler[r].response.text # "Proxy error") =>
              handler[r].response = MaxRetriesResponse
        /\ handler[r].response = MaxRetriesResponse =>
              hist[r].primary_calls = 2 * Len(key_states) /\ hist[r].rescue = ""

C3_Witness ==
    \E r \in Requests :
        /\ handler[r].response = MaxRetriesResponse
        /\ Len(key_states) = MaxKeys
        /\ hist[r].primary_calls = 2 * MaxKeys

\* C4: an attempt that ends in KeyPressure (429, 500) or in a transport error takes the
\* request to mark_key_rate_limited with the key that attempt sent; the request's next
\* step cools exactly that key (rate_limited_until = now + cooldown, error_count + 1,
\* no other key touched) and then continues the loop or goes to Rescue; a 429 or 500
\* of the primary is never the response served.
C4_Step(r) ==
    /\ (/\ pc[r] = "await_primary" /\ pc'[r] # "await_primary"
        /\ (IsKeyPressure(hist'[r].last) \/ IsTransport(hist'[r].last))) =>
          /\ pc'[r] = "mark_rate_limited"
          /\ handler'[r].api_key = hist[r].upstream.authorization
    /\ (pc[r] = "mark_rate_limited" /\ pc'[r] # "mark_rate_limited") =>
          LET i == FindKey(key_states, handler[r].api_key) IN
          /\ i # 0
          /\ key_states'[i].rate_limited_until = now + cooldown_seconds
          /\ key_states'[i].error_count = key_states[i].error_count + 1
          /\ \A j \in 1..Len(key_states) : j # i => key_states'[j] = key_states[j]
          /\ pc'[r] \in {"all_check", "loop"}
    /\ (pc[r] = "all_check" /\ pc'[r] # "all_check") =>
          pc'[r] \in {"loop", "await_synthetic", "await_zai"}

C4_MarkCooled ==
    /\ [][\A r \in Requests : C4_Step(r)]_vars
    /\ [](\A r \in Requests :
            handler[r].response.source = "primary" =>
                handler[r].response.status \notin ROTATE_KEY_ERROR_CODES)

\* a request has cooled the key it used and the cursor, rotated once more by this
\* mark after another request's mark, rests on that cooling key again
C4_Witness ==
    \E r \in Requests :
        /\ pc[r] \in {"all_check", "loop"}
        /\ IsKeyPressure(hist[r].last) \/ IsTransport(hist[r].last)
        /\ ~is_available(key_states[FindKey(key_states, handler[r].api_key)], now)
        /\ key_states[current_index + 1].key = handler[r].api_key

\* C5: for a chat completion with a JSON-object body, fallback enabled and a rescue
\* credential configured, a KeyPressure outcome that leaves every key cooling is
\* followed by Rescue: the request is never back in the attempt loop with all keys
\* cooling right after its own KeyPressure.
C5_RescueWhenAllCooling ==
    \A r \in Requests :
        ~(/\ IsJsonObjectChat(handler[r].req)
          /\ fallback_on_cooldown /\ AnyRescueKey
          /\ pc[r] = "loop"
          /\ IsKeyPressure(hist[r].last)
          /\ AllKeysRateLimited(key_states, now))

C6_Step(r) ==
    /\ (pc[r] = "mark_rate_limited" /\ pc'[r] # "mark_rate_limited") =>
          IF IsTransport(hist[r].last)
          THEN pc'[r] = "loop" /\ hist'[r].rescue = ""
          ELSE fallback_on_cooldown => pc'[r] = "all_check"
    /\ (pc[r] = "loop" /\ pc'[r] # "loop") => pc'[r] \in {"select", "done"}
    /\ (hist[r].rescue # "cooldown" /\ hist'[r].rescue = "cooldown") =>
          pc[r] \in {"fallback_check", "all_check"}

C7_EmbeddedQuotaRescued ==
    \A r \in Requests :
        (/\ IsJsonObjectChat(handler[r].req)
         /\ AnyRescueKey
         /\ IsOk(hist[r].last) /\ IsEmbeddedQuota(hist[r].last)) =>
            /\ pc[r] # "mark_success"
            /\ handler[r].response.source # "primary"

\* C8 as claimed: after every Ok outcome of the primary the request has called
\* mark_key_success, also when the response was handed to Rescue.
C8_SuccessMarkedOnEveryOk ==
    \A r \in Requests :
        (IsOk(hist[r].last) /\ pc[r] \in {"await_synthetic", "await_zai", "done"}) =>
            hist[r].success_marked

\* C8 as amended: after an Ok outcome mark_key_success has been called exactly when
\* the primary's response is the one returned, not when the response was handed to
\* Rescue; the call sets the error_count of the key used to 0 and the response
\* returned is the primary's.
C8_Step(r) ==
    (pc[r] = "mark_success" /\ pc'[r] # "mark_success") =>
        /\ key_states'[FindKey(key_states, handler[r].api_key)].error_count = 0
        /\ pc'[r] = "done"
        /\ handler'[r].response = AsReceived(hist[r].last)

C8_SuccessMarkedWhenReturned ==
    /\ [][\A r \in Requests : C8_Step(r)]_vars
    /\ [](\A r \in Requests :
            (IsOk(hist[r].last) /\ pc[r] \in {"await_synthetic", "await_zai", "done"}) =>
                /\ hist[r].success_marked <=> hist[r].rescue = ""
                /\ hist[r].success_marked <=> handler[r].response.source = "primary")

\* an embedded-quota 200 was handed to Rescue without mark_key_success, the key used
\* still carrying an error count
C8_Witness ==
    \E r \in Requests :
        /\ IsOk(hist[r].last)
        /\ hist[r].rescue = "embedded_quota"
        /\ ~hist[r].success_marked
        /\ key_states[FindKey(key_states, handler[r].api_key)].error_count > 0

\* C9: a chat completion whose Content-Length exceeds the threshold and whose body
\* parses as JSON is handed to the Rescue Router and never contacts the primary; only
\* such a request is routed as oversize.
C9_OversizeRouted ==
    \A r \in Requests :
        /\ (/\ pc[r] \notin {"idle", "absent", "read_oversize"}
            /\ IsOversize(handler[r].req)
            /\ JsonLoads(handler[r].req.body).ok) =>
              hist[r].rescue = "oversize" /\ hist[r].primary_calls = 0
        /\ hist[r].rescue = "oversize" =>
              /\ handler[r].req.content_length.kind = "int"
              /\ handler[r].req.content_length.value > CONTENT_LENGTH_THRESHOLD
              /\ JsonLoads(handler[r].req.body).ok

\* C10: a chat completion with an image_url element in a message is routed to Rescue
\* with the vision model as override and never contacts the primary, whichever of the
\* rescue credentials are configured (at least one is).
C10_VisionRouted ==
    \A r \in Requests :
        (/\ pc[r] \notin {"idle", "absent", "read_oversize", "read_body", "prepare"}
         /\ IsImageChat(handler[r].req)
         /\ AnyRescueKey) =>
            /\ hist[r].rescue # ""
            /\ hist[r].override_model = SYNTHETIC_VISION_MODEL
            /\ hist[r].primary_calls = 0

\* how a call to Synthetic ended, for a request that called it
SyntheticAnswered(r) == hist[r].synthetic_last # NoReply
SyntheticFailed(r) ==
    \/ hist[r].synthetic_last.kind = "exception"
    \/ hist[r].synthetic_last.kind = "response" /\ hist[r].synthetic_last.status >= 400

\* C11: Z.ai is contacted only if Synthetic has no key, or Synthetic was contacted
\* first and answered with a status >= 400 or raised; when Synthetic answers with a
\* status below 400 that response is returned and Z.ai is never contacted.
C11_DispatchOrder ==
    \A r \in Requests :
        /\ hist[r].zai_calls > 0 =>
              \/ synthetic_api_key = NoSecret /\ hist[r].synthetic_calls = 0
              \/ /\ synthetic_api_key # NoSecret
                 /\ hist[r].synthetic_calls > 0
                 /\ SyntheticFailed(r)
        /\ (SyntheticAnswered(r) /\ ~SyntheticFailed(r)) =>
              /\ hist[r].zai_calls = 0
              /\ pc[r] = "done"
              /\ handler[r].response =
                    Response(hist[r].synthetic_last.status, "synthetic",
                             hist[r].synthetic_last.body)

\* Z.ai was contacted after Synthetic answered 500
C11_Witness ==
    \E r \in Requests :
        /\ hist[r].synthetic_calls = 1 /\ hist[r].zai_calls = 1
        /\ hist[r].synthetic_last.kind = "response"
        /\ hist[r].synthetic_last.status >= 400

\* C12: when Z.ai was contacted and answered, the response returned is Z.ai's, with
\* its status whatever that is; Synthetic's failing response is never the one returned.
C12_ZaiReturnedWhateverStatus ==
    \A r \in Requests :
        hist[r].zai_last.kind = "response" =>
            /\ pc[r] = "done"
            /\ handler[r].response =
                  Response(hist[r].zai_last.status, "zai", hist[r].zai_last.body)
            /\ handler[r].response.source # "synthetic"

\* Z.ai answered 500 after Synthetic's 500, and Z.ai's 500 was served
C12_Witness ==
    \E r \in Requests :
        /\ SyntheticFailed(r) /\ hist[r].synthetic_last.kind = "response"
        /\ hist[r].zai_last.kind = "response" /\ hist[r].zai_last.status >= 400
        /\ handler[r].response.source = "zai"
        /\ handler[r].response.status = hist[r].zai_last.status

\* C13: a request handed to _route_to_alternative_api with neither key configured is
\* answered 503 and no upstream is contacted for it; whenever Z.ai has no key and
\* Synthetic has none or failed, the request ends with a 503 of the proxy.
C13_NoAlternative503 ==
    \A r \in Requests :
        /\ (hist[r].rescue # "" /\ ~AnyRescueKey) =>
              /\ pc[r] = "done"
              /\ handler[r].response = NoAlternativeResponse
              /\ hist[r].synthetic_calls = 0 /\ hist[r].zai_calls = 0
              /\ hist[r].upstream = NoUpstream
        /\ (/\ hist[r].rescue # ""
            /\ zai_api_key = NoSecret
            /\ synthetic_api_key = NoSecret \/ SyntheticFailed(r)) =>
              /\ pc[r] = "done"
              /\ handler[r].response.status = 503
              /\ handler[r].response.source = "proxy"
              /\ hist[r].zai_calls = 0

\* an oversize request was handed over with no key configured and answered 503
C13_Witness ==
    \E r \in Requests :
        /\ hist[r].rescue = "oversize"
        /\ ~AnyRescueKey
        /\ handler[r].response = NoAlternativeResponse

\* C14: per request Synthetic is contacted at most once and Z.ai at most once; once a
\* request was handed to _route_to_alternative_api it never contacts the primary
\* again, and the pool (key states, cursor) is not changed or waited on for it.
C14_Step(r) ==
    hist[r].rescue # "" =>
        /\ hist'[r].primary_calls = hist[r].primary_calls
        /\ hist'[r].rescue = hist[r].rescue
        /\ key_states' = key_states /\ current_index' = current_index
        /\ pc'[r] \in {"await_synthetic", "await_zai", "done"}

C14_RescueOneShot ==
    /\ [][\A r \in Requests : C14_Step(r)]_vars
    /\ [](\A r \in Requests : hist[r].synthetic_calls <= 1 /\ hist[r].zai_calls <= 1)

\* a request that had contacted the primary ended in Rescue after one call to each
\* alternative
C14_Witness ==
    \E r \in Requests :
        /\ pc[r] = "done"
        /\ hist[r].rescue # ""
        /\ hist[r].primary_calls > 0
        /\ hist[r].synthetic_calls = 1 /\ hist[r].zai_calls = 1

\* the secret an upstream request of request r has to carry
ExpectedSecret(r) ==
    CASE hist[r].upstream.to = "primary" -> handler[r].api_key
      [] hist[r].upstream.to = "synthetic" -> synthetic_api_key
      [] hist[r].upstream.to = "zai" -> zai_api_key
      [] OTHER -> NoSecret

\* the tokens a client's Authorization header holds in the model
ClientTokens == {GoodToken, RevokedToken}

\* C15: every upstream request has exactly one header whose name is authorization in
\* any letter case, Authorization: Bearer <secret>, where the secret is the pool key
\* get_current_key returned for that attempt (primary), the Synthetic key or the Z.ai
\* key; no header of an upstream request holds the client's token.
C15_Step(r) ==
    hist'[r].primary_calls > hist[r].primary_calls =>
        /\ hist'[r].upstream.to = "primary"
        /\ <<"Authorization", Bearer(key_states'[current_index' + 1].key)>>
              \in hist'[r].upstream.headers

C15_CredentialIsolation ==
    /\ [][\A r \in Requests : C15_Step(r)]_vars
    /\ [](\A r \in Requests :
            hist[r].upstream.to # "none" =>
                /\ ExpectedSecret(r) # NoSecret
                /\ <<"Authorization", Bearer(ExpectedSecret(r))>> \in hist[r].upstream.headers
                /\ \A h \in hist[r].upstream.headers :
                      /\ Lower(h[1]) = "authorization" =>
                            h = <<"Authorization", Bearer(ExpectedSecret(r))>>
                      /\ h[2].token \notin ClientTokens)

\* a request that came with AUTHORIZATION: Bearer <token> went to the primary and then
\* to Synthetic
C15_Witness ==
    \E r \in Requests :
        /\ <<"AUTHORIZATION", Bearer(GoodToken)>> \in handler[r].req.headers
        /\ hist[r].primary_calls > 0
        /\ hist[r].upstream.to = "synthetic"

\* the error code the authentication has to give for a set of headers
ExpectedAuthCode(headers) ==
    IF ~\E h \in headers : h[1] \in AuthorizationNames THEN "missing_authorization"
    ELSE LET v == (CHOOSE h \in headers : h[1] \in AuthorizationNames)[2] IN
         IF v = EmptyValue THEN "missing_authorization"
         ELSE IF v.parts # 2 \/ v.scheme \notin {"Bearer", "bearer"} THEN "invalid_authorization"
         ELSE IF v.token # GoodToken THEN "invalid_api_key"
         ELSE ""

\* C16: with authentication on, a request without Authorization header (or with an
\* empty one), with one not of the form Bearer <token>, or with a token
\* verify_api_key rejects, is answered 401
\* with the code missing_authorization, invalid_authorization or invalid_api_key by
\* the handler's first step: no body read, no upstream contacted, pool and lock as
\* they were.
C16_Step(r) ==
    (/\ incoming_key_manager
     /\ pc[r] = "idle" /\ pc'[r] # "idle"
     /\ ExpectedAuthCode(handler'[r].req.headers) # "") =>
        /\ pc'[r] = "done"
        /\ handler'[r].response =
              Response(401, "proxy", ExpectedAuthCode(handler'[r].req.headers))
        /\ hist'[r] = InitialHist
        /\ UNCHANGED <<key_states, current_index, lock_owner, lock_waiters>>

C16_Unauthorized401 ==
    /\ [][\A r \in Requests : C16_Step(r)]_vars
    /\ [](\A r \in Requests :
            (handler[r].response.status = 401 /\ handler[r].response.source = "proxy") =>
                pc[r] = "done" /\ hist[r] = InitialHist)

\* a request with authorization: Bearer <revoked token> was answered 401 invalid_api_key
C16_Witness ==
    \E r \in Requests :
        /\ incoming_key_manager
        /\ <<"authorization", Bearer(RevokedToken)>> \in handler[r].req.headers
        /\ handler[r].response = Response(401, "proxy", "invalid_api_key")

\* C17: _save_request_response_log is called exactly once for every response served
\* other than a 401 of the authentication, the proxy's own 503s and 500 included.
C17_RecordedOncePerResponse ==
    \A r \in Requests :
        pc[r] = "done" =>
            IF handler[r].response.status = 401 /\ handler[r].response.source = "proxy"
            THEN hist[r].record_calls = 0
            ELSE hist[r].record_calls = 1

\* C18: the request body of every log entry is the body as the client sent it
\* (decoded), on the primary path and on the path through the alternative APIs, also
\* when the forwarded body was rewritten.
C18_OriginalBodyCaptured ==
    \A r \in Requests :
        hist[r].log # NoLog => hist[r].log.body = DecodeBody(handler[r].req.body)

\* a log entry was written for a request the primary answered and whose forwarded
\* body the repair had rewritten
C18_Witness ==
    \E r \in Requests :
        /\ hist[r].log # NoLog
        /\ hist[r].log.path_prefix = ""
        /\ handler[r].request_body # handler[r].req.body
        /\ DecodeBody(handler[r].request_body) # hist[r].log.body

\* C19: the step that calls _save_request_response_log serves the upstream's status
\* and body and leaves the pool as mark_key_success left it, whether the write
\* succeeds or fails.
C19_Step(r) ==
    hist'[r].record_calls > hist[r].record_calls =>
        /\ pc'[r] = "done"
        /\ handler'[r].response =
              CASE pc[r] = "await_synthetic" ->
                      Response(hist'[r].synthetic_last.status, "synthetic",
                               hist'[r].synthetic_last.body)
                [] pc[r] = "await_zai" ->
                      Response(hist'[r].zai_last.status, "zai", hist'[r].zai_last.body)
                [] OTHER -> AsReceived(hist'[r].last)
        /\ current_index' = current_index
        /\ key_states' = IF pc[r] = "mark_success"
                         THEN MarkKeySuccess(key_states, handler[r].api_key)
                         ELSE key_states

C19_CaptureIndependence == [][\A r \in Requests : C19_Step(r)]_vars

\* the write of the log failed and the primary's 200 was served
C19_Witness ==
    \E r \in Requests :
        /\ pc[r] = "done"
        /\ hist[r].record_calls = 1 /\ hist[r].log = NoLog
        /\ handler[r].response = AsReceived(hist[r].last)
        /\ handler[r].response.status = 200

\* C20: no header of a log entry holds the client's token, however the client spelled
\* the name of the Authorization header.
C20_TokenNeverLogged ==
    \A r \in Requests :
        hist[r].log # NoLog =>
            \A h \in hist[r].log.headers : h[2].token \notin ClientTokens

\* ------------------------------------------------------------ the repair of messages
\* the message is a tool response / an assistant message with tool_calls, as
\* _fix_missing_tool_responses tells them
IsToolResponse(msg) == msg.role = "tool" /\ msg.tool_call_id # ""
IsCalls(msg) == msg.role = "assistant" /\ msg.tc # "absent"

\* the messages array of the request, and whether the tool_call fix has run on it
\* and returned
RepairInput(r) == handler[r].req.body.data.messages
Repaired(r) ==
    /\ pc[r] \in {"fallback_check", "select"}
    /\ handler[r].req.chat
    /\ handler[r].req.body.form = "original"
    /\ handler[r].req.body.data.has_messages
    /\ ~FixRaises(RepairInput(r))
RepairOutput(r) == fix_missing_tool_responses(RepairInput(r))

\* the tool responses to id x among positions a..b of a messages array
Answers(m, x, a, b) ==
    {q \in a..b : q \in 1..Len(m) /\ IsToolResponse(m[q]) /\ m[q].tool_call_id = x}

\* the messages of `out` that a left-to-right embedding of `inp` leaves unmatched
RECURSIVE Unmatched(_, _)
Unmatched(inp, out) ==
    IF out = <<>> THEN <<>>
    ELSE IF inp # <<>> /\ Head(inp) = Head(out) THEN Unmatched(Tail(inp), Tail(out))
    ELSE <<Head(out)>> \o Unmatched(inp, Tail(out))

\* C21: repair idempotence: repairing the output of a repair raises nothing and
\* returns that output again, for every messages array, among them arrays with
\* duplicate ids, orphan and late tool responses and consecutive assistant messages
\* with calls.
C21_RepairIdempotent ==
    \A r \in Requests :
        Repaired(r) =>
            /\ ~FixRaises(RepairOutput(r))
            /\ fix_missing_tool_responses(RepairOutput(r)) = RepairOutput(r)

\* C21 witness: the repair has run on an array with a duplicate id, consecutive
\* assistant messages with calls and a tool response after a user message, and
\* has added messages to it
C21_Witness ==
    \E r \in Requests :
        /\ Repaired(r)
        /\ RepairInput(r) = <<CallMsg(<<"t1", "t1">>), CallMsg(<<"t1", "t2">>),
                              UserMsg, ToolMsg("t2")>>
        /\ Len(RepairOutput(r)) > 4
        /\ handler[r].request_data_for_routing.messages = RepairOutput(r)

\* the tool_call fix leaves the inbound request as it was, its output embeds the
\* input in order, and what the embedding leaves over are records
\* {role: tool, tool_call_id: id, content: 'failed'}
C22_Step(r) ==
    (pc[r] = "prepare" /\ pc'[r] # "prepare" /\ handler[r].req.body.data.has_messages
     /\ ~FixRaises(RepairInput(r)))
    => LET inp == RepairInput(r)
           out == handler'[r].request_data_for_routing.messages
           extra == Unmatched(inp, out)
       IN  /\ handler'[r].req = handler[r].req
           /\ OriginalRequestBody(handler'[r]) = handler[r].req.body
           /\ out = RepairOutput(r)
           /\ Len(out) = Len(inp) + Len(extra)
           /\ \A k \in 1..Len(extra) :
                 \E id \in {"t1", "t2"} :
                     extra[k] = [role |-> "tool", tc |-> "absent", tool_calls |-> <<>>,
                                 tool_call_id |-> id, content |-> "failed"]

\* C22: repair preservation: the output of the repair contains every input message
\* unchanged and in the same order, every other message of the output is a
\* synthesized failed tool response, and the input is not modified.
C22_RepairPreserves == [][\A r \in Requests : C22_Step(r)]_vars

\* C22 witness: a repair that has inserted responses in the middle and at the end
\* of the input
C22_Witness ==
    \E r \in Requests :
        /\ Repaired(r)
        /\ RepairInput(r) = <<CallMsg(<<"t1">>), UserMsg, CallMsg(<<"t1", "t2">>),
                              ToolMsg("t2")>>
        /\ handler[r].request_data_for_routing.messages =
               <<CallMsg(<<"t1">>), FakeResponse("t1"), UserMsg, CallMsg(<<"t1", "t2">>),
                 ToolMsg("t2"), FakeResponse("t1")>>

\* C23 as stated: in the output of the repair every id declared by an assistant
\* message with calls is the tool_call_id of exactly one later tool response.
C23_AnsweredExactlyOnce ==
    \A r \in Requests :
        Repaired(r) =>
            LET out == RepairOutput(r) IN
            \A p \in 1..Len(out) :
                IsCalls(out[p]) =>
                    \A k \in 1..Len(out[p].tool_calls) :
                        Cardinality(Answers(out, out[p].tool_calls[k], p + 1, Len(out))) = 1

\* C23: repair correlation: in the output of the repair every id declared by an
\* assistant message with calls is the tool_call_id of at least one later tool
\* response, real or synthesized.
C23_AnsweredLater ==
    \A r \in Requests :
        Repaired(r) =>
            LET out == RepairOutput(r) IN
            \A p \in 1..Len(out) :
                IsCalls(out[p]) =>
                    \A k \in 1..Len(out[p].tool_calls) :
                        Answers(out, out[p].tool_calls[k], p + 1, Len(out)) # {}

\* C23 witness: the repair has run on an array whose tool response precedes its
\* invocation and is repeated after it, and has synthesized the response to t2
C23_Witness ==
    \E r \in Requests :
        /\ Repaired(r)
        /\ RepairInput(r) = <<ToolMsg("t1"), CallMsg(<<"t1", "t2">>), ToolMsg("t1"),
                              ToolMsg("t1")>>
        /\ handler[r].request_data_for_routing.messages =
               Append(RepairInput(r), FakeResponse("t2"))

\* every id declared in m has exactly one tool response after its declaration
ExactlyOneAnswer(m) ==
    \A p \in 1..Len(m) :
        IsCalls(m[p]) =>
            \A k \in 1..Len(m[p].tool_calls) :
                Cardinality(Answers(m, m[p].tool_calls[k], p + 1, Len(m))) = 1

\* no id is declared twice in m
DeclaredOnce(m) ==
    \A p, q \in 1..Len(m) :
        \A k \in 1..Len(m[p].tool_calls), l \in 1..Len(m[q].tool_calls) :
            (IsCalls(m[p]) /\ IsCalls(m[q]) /\ m[p].tool_calls[k] = m[q].tool_calls[l])
            => (p = q /\ k = l)

\* every id declared in m is answered before the next message that is neither a
\* tool response nor an assistant message with calls
AnsweredInRun(m) ==
    \A p \in 1..Len(m) :
        IsCalls(m[p]) =>
            \A k \in 1..Len(m[p].tool_calls) :
                \E q \in Answers(m, m[p].tool_calls[k], p + 1, Len(m)) :
                    \A j \in (p + 1)..(q - 1) : IsToolResponse(m[j]) \/ IsCalls(m[j])

\* C24 as stated: an input that has exactly one answering tool response for every
\* invocation id is returned as it is, wherever that response comes.
C24_FixpointWhenAnswered ==
    \A r \in Requests :
        (Repaired(r) /\ ExactlyOneAnswer(RepairInput(r)))
        => RepairOutput(r) = RepairInput(r)

\* C24: repair fixpoint: an input in which every invocation id is declared once and
\* has exactly one answering tool response, located after its declaration and
\* before the next message that is neither a tool response nor an assistant
\* message with calls, is returned as it is, and the body is forwarded unchanged.
C24_FixpointWhenAnsweredInRun ==
    \A r \in Requests :
        (/\ Repaired(r)
         /\ ExactlyOneAnswer(RepairInput(r))
         /\ DeclaredOnce(RepairInput(r))
         /\ AnsweredInRun(RepairInput(r)))
        => /\ RepairOutput(r) = RepairInput(r)
           /\ handler[r].request_body = handler[r].req.body

\* C24 witness: the repair has run on two consecutive assistant messages with calls
\* followed by their two responses
C24_Witness ==
    \E r \in Requests :
        /\ Repaired(r)
        /\ RepairInput(r) = <<UserMsg, CallMsg(<<"t1", "t2">>), ToolMsg("t2"),
                              ToolMsg("t1")>>
        /\ AnsweredInRun(RepairInput(r))
        /\ handler[r].request_data_for_routing.messages = RepairInput(r)

\* C25: repair placement: in the output every id declared by an assistant message
\* with calls has a tool response, real or synthesized, among the tool responses
\* that directly follow the declaring message, before the first later message that
\* is not a tool response, also when that message is another assistant message
\* with calls.
C25_AnsweredBeforeNextNonTool ==
    \A r \in Requests :
        Repaired(r) =>
            LET out == RepairOutput(r) IN
            \A p \in 1..Len(out) :
                IsCalls(out[p]) =>
                    \A k \in 1..Len(out[p].tool_calls) :
                        \E q \in Answers(out, out[p].tool_calls[k], p + 1, Len(out)) :
                            \A j \in (p + 1)..(q - 1) : IsToolResponse(out[j])

\* the fix has synthesized a tool response for the request: a chat completion whose
\* body is a JSON object with a messages array on which the fix returns an array
\* that holds more than the input
Synthesized(req) ==
    /\ req.chat
    /\ JsonLoads(req.body).ok
    /\ req.body.data.kind = "object"
    /\ req.body.data.has_messages
    /\ ~FixRaises(req.body.data.messages)
    /\ Unmatched(req.body.data.messages,
                 fix_missing_tool_responses(req.body.data.messages)) # <<>>

\* C26: repairer scope: the body sent to the primary is the inbound body, byte for
\* byte, unless the fix synthesized a tool response; only then it is the compact
\* serialization of the repaired data; the Content-Length sent with it is the
\* length of the body that is sent.
C26_RepairerScope ==
    \A r \in Requests :
        (hist[r].upstream.to = "primary" /\ handler[r].req.method = "POST") =>
            LET req == handler[r].req
                sent == hist[r].upstream.body
            IN  /\ sent = IF Synthesized(req)
                          THEN Body("compact",
                                    [req.body.data EXCEPT !.messages =
                                        fix_missing_tool_responses(req.body.data.messages)])
                          ELSE req.body
                /\ (sent = req.body) <=> ~Synthesized(req)
                /\ handler[r].content_length =
                       IF sent.form = "empty" THEN NoContentLength
                       ELSE ContentLength("int", BodyLength(sent))

\* C26 witness: a chat completion with an unanswered call has been sent to the
\* primary with the synthesized response, re-serialized, and its new length
C26_Witness ==
    \E r \in Requests :
        /\ hist[r].upstream.to = "primary"
        /\ handler[r].req.chat
        /\ handler[r].req.body = Body("original", Object(<<CallMsg(<<"t1">>), UserMsg>>))
        /\ hist[r].upstream.body =
               Body("compact", Object(<<CallMsg(<<"t1">>), FakeResponse("t1"), UserMsg>>))
        /\ handler[r].content_length = ContentLength("int", 122)

\* ------------------------------------------------------------ the pool
\* request r's get_current_key runs its scan in this step
SelectStep(r) == pc[r] = "select" /\ pc'[r] # "select"

\* the smallest rate_limited_until of the pool
MinRateLimitedUntil ==
    CHOOSE m \in {key_states[i].rate_limited_until : i \in 1..Len(key_states)} :
        \A i \in 1..Len(key_states) : m <= key_states[i].rate_limited_until

\* the first available key in ring order after the cursor (0-based)
FirstAvailableAfterCursor ==
    LET n == Len(key_states)
        at(k) == (current_index + k) % n
        k0 == CHOOSE k \in 1..(n - 1) :
                  /\ is_available(key_states[at(k) + 1], now)
                  /\ \A j \in 1..(k - 1) : ~is_available(key_states[at(j) + 1], now)
    IN  at(k0)

\* a Select that finds the key at the cursor available returns it and leaves the
\* pool as it is; a Mark-success sets the error_count of the named key to 0 and
\* leaves the cursor and every rate_limited_until as they are
C27_Step(r) ==
    /\ (SelectStep(r) /\ is_available(key_states[current_index + 1], now))
       => /\ pc'[r] = "await_primary"
          /\ handler'[r].api_key = key_states[current_index + 1].key
          /\ current_index' = current_index
          /\ key_states' = key_states
    /\ (pc[r] = "mark_success" /\ pc'[r] # "mark_success")
       => /\ current_index' = current_index
          /\ key_states' =
                 [i \in 1..Len(key_states) |->
                     IF key_states[i].key = handler[r].api_key
                     THEN [key_states[i] EXCEPT !.error_count = 0]
                     ELSE key_states[i]]

\* C27: sticky selection: Select returns the secret of the credential at the cursor
\* without moving the cursor whenever that credential is available, and
\* Mark-success only sets the named credential's error_count to 0; so Selects that
\* only Mark-success calls separate return the same credential.
C27_StickySelection == [][\A r \in Requests : C27_Step(r)]_vars

\* C27 witness: a request was answered with the first key after that key had been
\* cooled once, its Mark-success has put the error_count back to 0 with the
\* rate_limited_until left as it was, and the other request holds the same key with
\* the cursor still on it
C27_Witness ==
    \E r1, r2 \in Requests :
        /\ r1 # r2
        /\ pc[r1] = "done" /\ hist[r1].success_marked
        /\ handler[r1].api_key = key_states[current_index + 1].key
        /\ key_states[current_index + 1].error_count = 0
        /\ key_states[current_index + 1].rate_limited_until > 0
        /\ pc[r2] = "await_primary"
        /\ handler[r2].api_key = handler[r1].api_key

\* a Select that finds the key at the cursor rate-limited and another key available
\* returns the first available key in ring order after the cursor, leaves the
\* cursor on it, and does not wait
C28_Step(r) ==
    (/\ SelectStep(r)
     /\ ~is_available(key_states[current_index + 1], now)
     /\ ~AllKeysRateLimited(key_states, now))
    => /\ pc'[r] = "await_primary"
       /\ current_index' = FirstAvailableAfterCursor
       /\ handler'[r].api_key = key_states[FirstAvailableAfterCursor + 1].key
       /\ is_available(key_states[current_index' + 1], now)
       /\ key_states' = key_states

\* C28: pool fairness under cooling: if the current credential is cooling and
\* another is available when Select runs, Select returns the first available
\* credential in ring order after the cursor, leaves the cursor on it, and does not
\* sleep.
C28_FairUnderCooling == [][\A r \in Requests : C28_Step(r)]_vars

\* C28 witness: two calls with the first key have ended and cooled it twice, which
\* took the cursor once round the ring and back to it; both requests now have their
\* second call out with the second key, which was never cooled, and the cursor is
\* on that key
C28_Witness ==
    \E r1, r2 \in Requests :
        /\ r1 # r2
        /\ pc[r1] = "await_primary" /\ pc[r2] = "await_primary"
        /\ handler[r1].api_key = key_states[2].key
        /\ handler[r2].api_key = key_states[2].key
        /\ current_index = 1
        /\ key_states[1].error_count = 2
        /\ ~is_available(key_states[1], now)
        /\ key_states[2].rate_limited_until = 0
        /\ hist[r1].primary_calls = 2 /\ hist[r2].primary_calls = 2

\* with every key rate-limited get_current_key sleeps; it wakes no earlier than the
\* smallest rate_limited_until, moves the cursor to a key that has it, and the
\* request is sent to the primary with that key
C29_Step(r) ==
    /\ (pc[r] = "select_wait" /\ pc'[r] # "select_wait"
        /\ AllKeysRateLimited(key_states, now))
       => /\ pc'[r] = "sleeping"
          /\ UNCHANGED pool
    /\ (pc[r] = "sleeping" /\ pc'[r] # "sleeping")
       => /\ now >= MinRateLimitedUntil
          /\ key_states' = key_states
          /\ key_states[current_index' + 1].rate_limited_until = MinRateLimitedUntil
          /\ pc'[r] = "await_primary"
          /\ handler'[r].api_key = key_states[current_index' + 1].key
          /\ hist'[r].upstream.to = "primary"
          /\ hist'[r].upstream.authorization = key_states[current_index' + 1].key

\* C29: when every credential is cooling, Select waits until the minimum
\* cooling_until over the pool and no longer: the wake-up is due as soon as the
\* clock reaches that minimum.  It then returns the credential with that minimum
\* and sets the cursor to it, and the request retries the primary with it.
C29_WaitsForSoonest ==
    /\ [][\A r \in Requests : C29_Step(r)]_vars
    /\ [](\A r \in Requests :
             (pc[r] = "sleeping" /\ running = NoTask /\ now >= MinRateLimitedUntil)
             => ENABLED Wake(r))

\* C29 witness: with fallback disabled a Select sleeps while both keys are cooling,
\* the second until an earlier time than the first
C29_Witness ==
    \E r \in Requests :
        /\ ~fallback_on_cooldown
        /\ pc[r] = "sleeping"
        /\ AllKeysRateLimited(key_states, now)
        /\ key_states[2].rate_limited_until < key_states[1].rate_limited_until
        /\ SoonestAvailable(key_states) = 1

\* C30: while a Select sleeps because every credential is cooling the pool lock is
\* released, and no other caller's pool operation waits for it.
C30_LockReleasedWhileSleeping ==
    \A r \in Requests :
        pc[r] = "sleeping" => (lock_owner # r /\ lock_waiters = <<>>)

\* request r's mark_key_rate_limited runs in this step
MarkStep(r) == pc[r] = "mark_rate_limited" /\ pc'[r] # "mark_rate_limited"

\* a secret no key of the pool has
UnknownSecret == Secret("cerebras", 0)

\* mark_key_rate_limited on the secret of a key of the pool: that key, and no other,
\* gets rate_limited_until = now + cooldown and one more error, the cursor moves one
\* ring position, and the key is unavailable at every clock reading before
\* now + cooldown and available from then on
C31_Step(r) ==
    MarkStep(r) =>
        LET i == FindKey(key_states, handler[r].api_key) IN
        /\ i # 0
        /\ key_states'[i] = [key_states[i] EXCEPT
                                !.rate_limited_until = now + cooldown_seconds,
                                !.error_count = key_states[i].error_count + 1]
        /\ \A j \in 1..Len(key_states) : j # i => key_states'[j] = key_states[j]
        /\ Len(key_states') = Len(key_states)
        /\ current_index' = (current_index + 1) % Len(key_states)
        /\ \A t \in now..(now + cooldown_seconds + 1) :
              is_available(key_states'[i], t) <=> t >= now + cooldown_seconds

\* C31: Mark-cooled on a known secret sets that credential's cooling_until to
\* now + cooldown, adds exactly one to its error_count, advances the cursor exactly
\* one ring position and changes no other credential; the credential is unavailable
\* until now >= cooling_until.  Mark-cooled on a secret that is not in the pool
\* changes nothing, whatever state the pool is in.
C31_MarkCooledFrame ==
    /\ [][\A r \in Requests : C31_Step(r)]_vars
    /\ [](MarkKeyRateLimited(key_states, current_index, UnknownSecret, now,
                             cooldown_seconds)
             = [states |-> key_states, index |-> current_index])

\* C31 witness: a request has just cooled the first key after a 429: the key is
\* rate-limited for the cooldown with one error, the second key is untouched, and
\* the cursor is on the second key
C31_Witness ==
    \E r \in Requests :
        /\ pc[r] \in {"all_check", "loop"}
        /\ IsKeyPressure(hist[r].last)
        /\ handler[r].api_key = key_states[1].key
        /\ key_states[1].rate_limited_until = now + cooldown_seconds
        /\ key_states[1].error_count = 1
        /\ key_states[2] = KeyState(2)
        /\ current_index = 1
        /\ ~is_available(key_states[1], now)

\* C32: pin-until-failure under concurrency: the cursor moves off a credential c
\* only in a Mark-cooled for c, or in a Select that found c cooling; a Mark-cooled
\* for another credential never moves the cursor off an available c.
C32_PinnedUntilFailure ==
    [][current_index' # current_index =>
          \E r \in Requests :
              \/ MarkStep(r) /\ handler[r].api_key = key_states[current_index + 1].key
              \/ /\ SelectStep(r) \/ (pc[r] = "sleeping" /\ pc'[r] # "sleeping")
                 /\ ~is_available(key_states[current_index + 1], now)]_vars

\* request r is the only request of the run, and get_current_key has returned a key
\* to it: that key is the one most recently returned
OnlyRequestHoldsKey(r) ==
    /\ \A q \in Requests \ {r} : pc[q] = "absent"
    /\ handler[r].api_key # NoSecret

\* C33 as stated: in every reachable pool state the cursor is on the credential
\* most recently returned by Select.
C33_CursorOnLastSelected ==
    \A r \in Requests :
        OnlyRequestHoldsKey(r) => key_states[current_index + 1].key = handler[r].api_key

\* C33: the cursor is on the credential most recently returned by Select from the
\* moment Select returns it until the next Mark-cooled, which moves the cursor one
\* ring position on; nothing but a Mark-cooled or a Select moves the cursor.
C33_CursorOnLastSelectedUntilMark ==
    /\ [](\A r \in Requests :
             (OnlyRequestHoldsKey(r)
              /\ pc[r] \in {"await_primary", "mark_rate_limited", "mark_success"})
             => key_states[current_index + 1].key = handler[r].api_key)
    /\ [][\A r \in Requests :
             /\ MarkStep(r) => current_index' = (current_index + 1) % Len(key_states)
             /\ (OnlyRequestHoldsKey(r) /\ current_index' # current_index)
                => \/ MarkStep(r)
                   \/ SelectStep(r)
                   \/ pc[r] = "sleeping" /\ pc'[r] # "sleeping"]_vars

\* C33 witness: the only request has the second key out on its second attempt,
\* after the Mark-cooled of the first key, and the cursor is on the second key
C33_Witness ==
    \E r \in Requests :
        /\ OnlyRequestHoldsKey(r)
        /\ Len(key_states) = 2
        /\ pc[r] = "await_primary"
        /\ hist[r].primary_calls = 2
        /\ handler[r].api_key = key_states[2].key
        /\ current_index = 1
        /\ key_states[1].error_count = 1

\* C34: in every reachable pool state the cursor is in [0, N), the number N of
\* credentials is the number the pool was built with, and every error_count is
\* >= 0; All-cooling and Status change no pool state.
C34_PoolInvariants ==
    /\ [](/\ current_index \in 0..(Len(key_states) - 1)
          /\ Len(key_states) = MaxKeys
          /\ \A i \in 1..Len(key_states) :
                /\ key_states[i].error_count >= 0
                /\ key_states[i].key = KeyState(i).key
                /\ key_states[i].name = KeyState(i).name)
    /\ [][/\ Len(key_states') = Len(key_states)
          /\ (\E r \in Requests :
                 \/ pc[r] = "all_check" /\ pc'[r] # "all_check"
                 \/ pc[r] = "fallback_check" /\ pc'[r] # "fallback_check")
             => UNCHANGED pool
          /\ (pc[StatusTask] = "get_status" /\ pc'[StatusTask] # "get_status")
             => UNCHANGED pool]_vars

\* C34 witness: every pool operation has run: a status request was answered, one
\* request was answered after a Mark-success, the other is back in the loop after a
\* Mark-cooled and an All-cooling check, both keys have been cooled and the cursor
\* has gone round the ring to position 0
C34_Witness ==
    \E r1, r2 \in Requests :
        /\ fallback_on_cooldown
        /\ pc[StatusTask] = "done"
        /\ pc[r1] = "done" /\ hist[r1].success_marked
        /\ pc[r2] = "loop" /\ IsKeyPressure(hist[r2].last)
        /\ key_states[1].rate_limited_until > 0
        /\ key_states[2].rate_limited_until > 0
        /\ current_index = 0

\* C35: every chat-completion body with a messages array that is sent to an
\* upstream, the primary or an alternative API, has been through the tool_call fix:
\* every id an assistant message of the sent body declares has a later tool
\* response in it.
C35_RepairAlwaysApplied ==
    \A r \in Requests :
        LET sent == hist[r].upstream.body IN
        (/\ hist[r].upstream.to # "none"
         /\ handler[r].req.chat
         /\ JsonLoads(sent).ok
         /\ sent.data.kind = "object"
         /\ sent.data.has_messages)
        => \A p \in 1..Len(sent.data.messages) :
              IsCalls(sent.data.messages[p]) =>
                  \A k \in 1..Len(sent.data.messages[p].tool_calls) :
                      Answers(sent.data.messages, sent.data.messages[p].tool_calls[k],
                              p + 1, Len(sent.data.messages)) # {}

\* C36: Select never hands out a cooling credential: in the step in which
\* get_current_key returns a key to a request (after its scan, after its wait-time
\* computation, or after its sleep) that key is available at the clock reading of
\* the return.
C36_SelectedKeyAvailable ==
    [][\A r \in Requests :
          (pc[r] \in {"select", "select_wait", "sleeping"} /\ pc'[r] = "await_primary")
          => is_available(key_states[FindKey(key_states, handler'[r].api_key)], now)]_vars


\* C37: under any number of concurrent requests sharing the pool, every request the
\* forward engine has received eventually ends, given that every upstream call
\* completes and time passes (again and again no request is under way, and a request
\* that has ended stays ended, so none is under way for ever); it ends with exactly one response (a request has no
\* response before it ends, has one when it ends, and that response never changes);
\* no cooldown reaches past the last clock reading, so no sleeper waits for a tick
\* the clock cannot make
C37_Termination ==
    /\ []<>(\A r \in Requests : pc[r] \in {"idle", "done"})
    /\ [](\A r \in Requests : pc[r] = "done" <=> handler[r].response # NoResponse)
    /\ [][\A r \in Requests : pc[r] = "done" =>
              pc'[r] = "done" /\ handler'[r].response = handler[r].response]_vars
    /\ [](\A i \in 1..Len(key_states) : key_states[i].rate_limited_until <= TimeLimit)

\* both requests have ended, one of them after sleeping through a cooldown inside
\* Select (both keys were rate-limited with fallback disabled), every key of the
\* pool having been marked
C37_Witness ==
    /\ \A r \in Requests : pc[r] = "done"
    /\ ~fallback_on_cooldown
    /\ now > 0
    /\ \A i \in 1..Len(key_states) : key_states[i].error_count > 0
    /\ \E r \in Requests : hist[r].primary_calls > Len(key_states)


\* the request is not one Rescue can take: its path is not a chat-completion route,
\* or its body is empty or does not parse as JSON
NotForRescue(req) == ~req.chat \/ req.body.form = "empty" \/ ~JsonLoads(req.body).ok

\* C38: a request whose path is not a chat-completion route, or whose body is empty
\* or does not parse as JSON, never contacts Synthetic or Z.ai, whatever the primary
\* returns and whatever the fallback configuration
C38_NoRescueWithoutChatData ==
    \A r \in Requests :
        (pc[r] # "idle" /\ NotForRescue(handler[r].req)) =>
            /\ hist[r].synthetic_calls = 0
            /\ hist[r].zai_calls = 0
            /\ hist[r].rescue = ""
            /\ pc[r] \notin {"await_synthetic", "await_zai"}

\* a request outside the chat-completion route whose body is a JSON object with
\* messages was answered 503 by the primary with fallback enabled and a rescue key
\* configured, and has ended
C38_Witness ==
    \E r \in Requests :
        /\ pc[r] = "done"
        /\ ~handler[r].req.chat
        /\ handler[r].req.body = Body("original", Object(<<UserMsg>>))
        /\ hist[r].last = Reply("response", 503, "error")
        /\ fallback_on_cooldown
        /\ synthetic_api_key # NoSecret


\* C39: when a primary attempt raises an exception that is not a transport error,
\* the request ends at once with a 500 "Proxy error" response: that step leaves the
\* pool as it is (the key used is neither marked rate-limited nor marked
\* successful), starts no further attempt and does not enter Rescue; and a request
\* that ended this way has that response, made no call to Synthetic or Z.ai, and
\* sent no attempt after the one that raised
C39_Step(r) ==
    (pc[r] = "await_primary" /\ pc'[r] # "await_primary"
        /\ hist'[r].last.kind = "exception") =>
        /\ pc'[r] = "done"
        /\ handler'[r].response = Response(500, "proxy", "Proxy error")
        /\ UNCHANGED <<key_states, current_index>>
        /\ hist'[r].primary_calls = hist[r].primary_calls
        /\ hist'[r].synthetic_calls = hist[r].synthetic_calls
        /\ hist'[r].zai_calls = hist[r].zai_calls
        /\ hist'[r].rescue = hist[r].rescue
        /\ hist'[r].success_marked = hist[r].success_marked
C39_UnexpectedErrorEndsRequest ==
    /\ [][\A r \in Requests : C39_Step(r)]_vars
    /\ [](\A r \in Requests :
            (pc[r] = "done" /\ hist[r].last.kind = "exception") =>
                /\ handler[r].response = Response(500, "proxy", "Proxy error")
                /\ hist[r].rescue = ""
                /\ hist[r].synthetic_calls = 0 /\ hist[r].zai_calls = 0
                /\ ~hist[r].success_marked)

\* the second attempt of a request raised an unexpected exception after the first
\* key had been marked rate-limited, with fallback enabled, a rescue key configured
\* and request data to route: the request has ended
C39_Witness ==
    \E r \in Requests :
        /\ pc[r] = "done"
        /\ hist[r].last.kind = "exception"
        /\ hist[r].primary_calls = 2
        /\ Len(key_states) = 2
        /\ key_states[1].error_count = 1
        /\ key_states[2].error_count = 0
        /\ handler[r].api_key = key_states[2].key
        /\ fallback_on_cooldown /\ AnyRescueKey
        /\ Truthy(handler[r].request_data_for_routing)

====
